---- MODULE Spec2Model ----
(***************************************************************************)
(* Model of the ingestion pipeline (file-backed task queues, the in-memory *)
(* queue used by the upload route, the polling worker) and of the chat     *)
(* route's streaming response of totodo/allpassagent.                      *)
(***************************************************************************)
EXTENDS Integers, Sequences, FiniteSets, Bags, TLC

(* ------------------------------------------------------------------ *)
(* Bounds of the model                                                 *)
(* ------------------------------------------------------------------ *)
MaxDocs == 2
MaxEnqueues == 4
MaxCrashes == 1
MaxDeepEnqueues == 6
MaxIndexEnqueues == 5
MaxReads == 3
MaxSources == 2
MaxMatches == 2
MaxTopK == 2
MaxApiResults == 2
MaxConfigured == 4
MaxQuestions == 4
MaxTextLen == 5
MaxChunkSize == 3
MaxSearchResults == 3
MaxEmbedChunks == 21
MaxFragments == 2
MaxCuts == 2
MaxHistory == 7
MaxRequests == 6

(* ------------------------------------------------------------------ *)
(* Program constants                                                   *)
(* ------------------------------------------------------------------ *)
DefaultMaxRetries == 3
RerankTopK == 3
MultimediaTopK == 8
MaxRecommendations == 3

Docs == 1..MaxDocs

\* `retryCount?` / `maxRetries?` left out by the producer: `undefined || d`
\* and `0 || d` both give d, so an absent field is modelled as 0.
Unset == 0

QUEUE_NAMES == {"file-processing", "embedding", "vector-storage"}

\* task.fileType values: one the parse handler supports, one it does not.
FileTypes == {"text/plain", "video/mp4"}

\* what processFile finds behind task.blobUrl once it is downloaded and decoded
Blobs == {"text", "empty"}

\* maxRetries values a producer of the file queue may pass
ProducerMaxRetries == {Unset, 1}

NoTask ==
  [doc |-> 0, stage |-> "none", fileType |-> "none", blob |-> "none",
   retryCount |-> 0, maxRetries |-> 0, seq |-> 0]

VARIABLES
  fileQ,     \* .queue/<name>.json : the persisted snapshot of each queue
  memQ,      \* MemoryQueue.queue of lib/queue.ts, per queue name
  status,    \* persisted processing status of each document
  clock,     \* number of tasks written to a queue file so far (enqueue order)
  wpc,       \* position of the worker loop
  wq,        \* queue the worker is reading or writing
  wsnap,     \* the worker's local `items` between readQueue and writeQueue
  cur,       \* the task the worker has dequeued and is handling
  wpush,     \* the task the worker is about to push
  ppc,       \* position of each document's ingestion request
  psnap,     \* the request's local `items` between readQueue and writeQueue
  ptask,     \* the task the request is pushing
  crashes,   \* process restarts so far
  vectorIndex, \* the records of the vector index (Pinecone), as a bag
  cpc,       \* position of the chat request in app/api/chat/route.ts POST
  response,  \* what POST returned: an event stream or a JSON error
  out,       \* events enqueued on the stream controller, in order
  closed,    \* controller.close() was called
  upstream,  \* how the completion service behaved for this request
  nCtx,      \* relevantContext.length
  nMm,       \* multimediaContext.length
  gotContent,\* aiResponse is not empty
  reads,     \* reader.read() calls that returned a chunk
  relevantContext,   \* the reranked documents of a chat request
  multimediaResults, \* the results of the multimedia search of a chat request
  finalSources,      \* `sources` of the final event that was sent
  spc,               \* which final event was built: none, the normal one, the catch's
  matches,           \* rerankWithBGE: the candidates (SearchMatch[])
  topK,              \* rerankWithBGE: topK
  rerankApi,         \* how the rerank endpoint behaves and what it returns
  similarity,        \* how the scoring of rerankBySimilarity behaves
  rerankedResults,   \* what rerankWithBGE gave back to its caller
  rpc,               \* idle, call, returned
  maxRecommendations,\* RecommendationEngine.config.maxRecommendations
  scoredQuestions,   \* generateRecommendations: the scored candidates
  stepThrows,        \* a step of generateRecommendations throws
  recommended,       \* what generateRecommendations returned
  gpc,               \* idle, call, returned
  text,              \* chunkText: the document text, a sequence of characters
  chunkSize,         \* chunkText: chunkSize
  overlap,           \* chunkText: overlap
  pages,             \* chunkText: the page map (empty when there is none)
  chunks,            \* what chunkText returned
  kpc,               \* idle, call, parser (lib/document-parser), worker (file-processor)
  searchResults,     \* chat POST: searchResults.matches of the primary index query
  searchMatches,     \* chat POST: the matches handed to rerankWithBGE
  fpc,               \* idle, query (the index answered), rerank (rerankWithBGE is called)
  embedChunks,       \* the chunk ids of the document being embedded
  failingChunk,      \* the chunk the embedding service fails on (0: none)
  vectorTasks,       \* vector-storage tasks pushed by this attempt
  retried,           \* startWorker passed the embed task to retryFailedTask
  documentChunks,    \* lib processFile: the chunks inserted with their embedding
  epc,               \* idle, call, worker (the embed branch ran), lib (lib processFile ran)
  responseBody,      \* chat POST: the bytes of the completion service's response body
  cuts,              \* the positions at which the body is split into reads
  consumed,          \* how many bytes reader.read() has returned so far
  forwarded,         \* the contents of the content events enqueued, in order
  tpc,               \* idle, reading, done (reader.read() returned done)
  conversationHistory, \* buildEnhancedQuery: the history messages (role, length, blank)
  currentMessage,    \* buildEnhancedQuery: the length of the current message
  enhancedQuery,     \* what buildEnhancedQuery returned: its length and its parts
  qpc,               \* idle, call, returned
  workerRunning,     \* app/api/worker/route.ts: let workerRunning
  workerProcess,     \* app/api/worker/route.ts: let workerProcess (null or the promise)
  loops,             \* startWorker loops running that the endpoint started
  answers            \* the responses of the worker endpoint so far, in order, each
                     \* with the number of loops running when its request came in

ingestVars ==
  <<fileQ, memQ, status, clock, wpc, wq, wsnap, cur, wpush, ppc, psnap, ptask, crashes,
    vectorIndex>>

sourcesVars == <<relevantContext, multimediaResults, finalSources, spc>>

\* the state of the pure computations: it only changes in their own
\* specifications
rerankVars == <<matches, topK, rerankApi, similarity, rerankedResults, rpc>>

recommendVars == <<maxRecommendations, scoredQuestions, stepThrows, recommended, gpc>>

chunkVars == <<text, chunkSize, overlap, pages, chunks, kpc>>

filterVars == <<searchResults, searchMatches, fpc>>

\* the state of the computations of the route handlers
readVars == <<responseBody, cuts, consumed, forwarded, tpc>>

queryVars == <<conversationHistory, currentMessage, enhancedQuery, qpc>>

endpointVars == <<workerRunning, workerProcess, loops, answers>>

routeVars == <<filterVars, readVars, queryVars, endpointVars>>

embedVars == <<embedChunks, failingChunk, vectorTasks, retried, documentChunks, epc>>

funVars == <<sourcesVars, rerankVars, recommendVars, chunkVars, routeVars, embedVars>>

(* ------------------------------------------------------------------ *)
(* lib/file-queue.ts                                                   *)
(* ------------------------------------------------------------------ *)

\* readQueue: the parsed content of the queue file ([] when it is missing)
readQueue(queueName) == fileQ[queueName]

\* writeQueue: the file is replaced by the given items
writeQueue(queueName, items) == [fileQ EXCEPT ![queueName] = items]

\* items.unshift(task) in place of items.push(task)
itemsUnshift(items, task) == <<task>> \o items

\* items.push(task)
itemsPush(items, task) == Append(items, task)

\* items.shift(): the removed element and the remaining items
itemsShiftTask(items) == Head(items)

itemsShiftRest(items) == Tail(items)

\* { ...task, retryCount: task.retryCount || 0, maxRetries: task.maxRetries || 3 }
taskWithDefaults(task) ==
  [task EXCEPT !.retryCount = IF task.retryCount = Unset THEN 0 ELSE task.retryCount,
               !.maxRetries = IF task.maxRetries = Unset THEN DefaultMaxRetries
                              ELSE task.maxRetries]

\* retryFailedTask: const retryCount = (task.retryCount || 0) + 1
retryCountOf(task) == (IF task.retryCount = Unset THEN 0 ELSE task.retryCount) + 1

\* retryFailedTask: const maxRetries = task.maxRetries || 3
maxRetriesOf(task) == IF task.maxRetries = Unset THEN DefaultMaxRetries ELSE task.maxRetries

\* the bound compared against the retryCount before its increment
retryAllowedOffByOne(task) == task.retryCount <= maxRetriesOf(task)

\* retryFailedTask: if (retryCount <= maxRetries)
retryAllowed(task) == retryCountOf(task) <= maxRetriesOf(task)

\* retryFailedTask: const retryTask = { ...task, retryCount }
retryTask(task) == [task EXCEPT !.retryCount = retryCountOf(task)]

\* the queue name each worker branch passes to retryFailedTask
queueOfStage(stage) ==
  CASE stage = "parse" -> "file-processing"
    [] stage = "embed" -> "embedding"
    [] stage = "index" -> "vector-storage"

\* the vector-storage queue popped before the embedding queue
nextQueueIndexFirst(queueName) ==
  CASE queueName = "file-processing" -> "vector-storage"
    [] queueName = "vector-storage" -> "embedding"
    [] queueName = "embedding" -> "none"

\* the order in which one iteration of startWorker pops the queues
nextQueue(queueName) ==
  CASE queueName = "file-processing" -> "embedding"
    [] queueName = "embedding" -> "vector-storage"
    [] queueName = "vector-storage" -> "none"

\* the stamp of a task at the moment it is written to a queue file
stamped(task) == [task EXCEPT !.seq = clock + 1]

chatVars == <<cpc, response, out, closed, upstream, nCtx, nMm, gotContent, reads>>

\* no final event is being built
sourcesIdle ==
  /\ relevantContext = <<>>
  /\ multimediaResults = <<>>
  /\ finalSources = <<>>
  /\ spc = "none"

\* the completion of a function: a returned value or a thrown error
Threw == [threw |-> TRUE, value |-> <<>>]

Returned(value) == [threw |-> FALSE, value |-> value]

\* no rerank call is being made
rerankIdle ==
  /\ matches = <<>>
  /\ topK = 1
  /\ rerankApi = [outcome |-> "noKey", results |-> <<>>]
  /\ similarity = [throws |-> FALSE, bonus |-> <<>>]
  /\ rerankedResults = Returned(<<>>)
  /\ rpc = "idle"

\* the engine as constructed without a config, not called
recommendIdle ==
  /\ maxRecommendations = MaxRecommendations
  /\ scoredQuestions = <<>>
  /\ stepThrows = FALSE
  /\ recommended = <<>>
  /\ gpc = "idle"

\* the default chunkSize and overlap of both chunkText functions
DefaultChunkSize == 1000

DefaultOverlap == 200

\* chunkText is not being called
chunkIdle ==
  /\ text = <<>>
  /\ chunkSize = DefaultChunkSize
  /\ overlap = DefaultOverlap
  /\ pages = <<>>
  /\ chunks = <<>>
  /\ kpc = "idle"

\* no index query is being filtered
filterIdle ==
  /\ searchResults = <<>>
  /\ searchMatches = <<>>
  /\ fpc = "idle"

\* no document is being embedded
embedIdle ==
  /\ embedChunks = <<>>
  /\ failingChunk = 0
  /\ vectorTasks = <<>>
  /\ retried = FALSE
  /\ documentChunks = <<>>
  /\ epc = "idle"

\* none of the library computations is running
libIdle ==
  /\ sourcesIdle
  /\ rerankIdle
  /\ recommendIdle
  /\ chunkIdle
  /\ embedIdle

\* no response body is being read
readIdle ==
  /\ responseBody = <<>>
  /\ cuts = {}
  /\ consumed = 0
  /\ forwarded = <<>>
  /\ tpc = "idle"

\* buildEnhancedQuery is not being called
queryIdle ==
  /\ conversationHistory = <<>>
  /\ currentMessage = 0
  /\ enhancedQuery = [length |-> 0, history |-> <<>>]
  /\ qpc = "idle"

\* the worker route module as loaded: no worker was started
endpointIdle ==
  /\ workerRunning = FALSE
  /\ workerProcess = "null"
  /\ loops = 0
  /\ answers = <<>>

\* none of the route computations is running
routeIdle ==
  /\ filterIdle
  /\ readIdle
  /\ queryIdle
  /\ endpointIdle

SystemInit ==
  /\ cpc = "request"
  /\ response = "none"
  /\ out = <<>>
  /\ closed = FALSE
  /\ upstream = "none"
  /\ nCtx = 0
  /\ nMm = 0
  /\ gotContent = FALSE
  /\ reads = 0
  /\ fileQ = [q \in QUEUE_NAMES |-> <<>>]
  /\ memQ = [q \in QUEUE_NAMES |-> <<>>]
  /\ status = [d \in Docs |-> "none"]
  /\ clock = 0
  /\ wpc = "popRead"
  /\ wq = "file-processing"
  /\ wsnap = <<>>
  /\ cur = NoTask
  /\ wpush = NoTask
  /\ ppc = [d \in Docs |-> "idle"]
  /\ psnap = [d \in Docs |-> <<>>]
  /\ ptask = [d \in Docs |-> NoTask]
  /\ crashes = 0
  /\ vectorIndex = EmptyBag

Init ==
  /\ SystemInit
  /\ libIdle
  /\ routeIdle

(* ------------------------------------------------------------------ *)
(* Producers                                                           *)
(* ------------------------------------------------------------------ *)

\* The FileProcessingTask an ingestion request builds for document d.
newParseTask(d, fileType, maxRetries) ==
  [doc |-> d, stage |-> "parse", fileType |-> fileType, blob |-> "none",
   retryCount |-> Unset, maxRetries |-> maxRetries, seq |-> 0]

\* lib/file-queue.ts pushFileProcessingTask, up to the end of readQueue
\* inside pushToQueue: the task gets its defaults and the request holds the
\* snapshot it read.
pushFileProcessingTask_read(d) ==
  /\ ppc[d] = "idle"
  /\ \E fileType \in FileTypes, maxRetries \in ProducerMaxRetries :
       ptask' = [ptask EXCEPT ![d] =
                   taskWithDefaults(newParseTask(d, fileType, maxRetries))]
  /\ psnap' = [psnap EXCEPT ![d] = readQueue("file-processing")]
  /\ ppc' = [ppc EXCEPT ![d] = "write"]
  /\ status' = [status EXCEPT ![d] = "pending"]
  /\ UNCHANGED <<fileQ, memQ, clock, wpc, wq, wsnap, cur, wpush, crashes, vectorIndex>>

\* pushToQueue after the read: items.push(task); writeQueue(queueName, items)
pushFileProcessingTask_write(d) ==
  /\ ppc[d] = "write"
  /\ fileQ' = writeQueue("file-processing", itemsPush(psnap[d], stamped(ptask[d])))
  /\ clock' = clock + 1
  /\ ppc' = [ppc EXCEPT ![d] = "done"]
  /\ psnap' = [psnap EXCEPT ![d] = <<>>]
  /\ ptask' = [ptask EXCEPT ![d] = NoTask]
  /\ UNCHANGED <<memQ, status, wpc, wq, wsnap, cur, wpush, crashes, vectorIndex>>

\* MemoryQueue.push of lib/queue.ts
MemoryQueue_push(queue, item) == Append(queue, item)

\* app/api/upload/route.ts POST, for a document file that passed the type
\* check and parseDocument: the document is inserted (processed: false) and
\* its FileProcessingTask is pushed with pushFileProcessingTask of
\* '@/lib/queue', the in-memory queue. That task type has no retry fields.
uploadPOST(d) ==
  /\ ppc[d] = "idle"
  /\ memQ' = [memQ EXCEPT !["file-processing"] =
                 MemoryQueue_push(@, newParseTask(d, "text/plain", Unset))]
  /\ status' = [status EXCEPT ![d] = "pending"]
  /\ ppc' = [ppc EXCEPT ![d] = "uploaded"]
  /\ UNCHANGED <<fileQ, clock, wpc, wq, wsnap, cur, wpush, psnap, ptask, crashes, vectorIndex>>

(* ------------------------------------------------------------------ *)
(* workers/file-processor.ts                                           *)
(* ------------------------------------------------------------------ *)

\* back to the top of `while (true)`
loopTop ==
  /\ wpc' = "popRead"
  /\ wq' = "file-processing"
  /\ wsnap' = <<>>
  /\ cur' = NoTask
  /\ wpush' = NoTask

\* popFromQueue up to the end of readQueue. An empty queue returns null and
\* the loop goes on to the next queue; after the third one it sleeps.
popFromQueue_read ==
  /\ wpc = "popRead"
  /\ IF Len(readQueue(wq)) = 0
       THEN /\ IF nextQueue(wq) = "none"
                 THEN wpc' = "sleep" /\ wq' = wq
                 ELSE wpc' = "popRead" /\ wq' = nextQueue(wq)
            /\ wsnap' = <<>>
       ELSE /\ wpc' = "popWrite"
            /\ wq' = wq
            /\ wsnap' = readQueue(wq)
  /\ UNCHANGED <<fileQ, memQ, status, clock, cur, wpush, ppc, psnap, ptask, crashes, vectorIndex>>

\* popFromQueue after the read: items.shift(); writeQueue(queueName, items)
popFromQueue_write ==
  /\ wpc = "popWrite"
  /\ cur' = itemsShiftTask(wsnap)
  /\ fileQ' = writeQueue(wq, itemsShiftRest(wsnap))
  /\ wsnap' = <<>>
  /\ wpc' = "handle"
  /\ UNCHANGED <<memQ, status, clock, wq, wpush, ppc, psnap, ptask, crashes, vectorIndex>>

\* processFile: the branch on task.fileType that throws for a type it does
\* not know
supportedFileType(fileType) == fileType = "text/plain"

\* the EmbeddingTask processFile builds (no retry fields), as stored by
\* pushEmbeddingTask
newEmbeddingTask(task, content) ==
  taskWithDefaults([task EXCEPT !.stage = "embed", !.blob = content,
                                !.retryCount = Unset, !.maxRetries = Unset, !.seq = 0])

\* the VectorStorageTask processEmbedding builds (no retry fields), as
\* stored by pushVectorStorageTask
newVectorStorageTask(task) ==
  taskWithDefaults([task EXCEPT !.stage = "index", !.retryCount = Unset,
                                !.maxRetries = Unset, !.seq = 0])

\* processFile returns: status 'processing' is saved and the embedding task
\* goes to pushEmbeddingTask. An empty text is chunked like any other.
processFile_ok ==
  /\ wpc = "handle"
  /\ cur.stage = "parse"
  /\ supportedFileType(cur.fileType)
  /\ status' = [status EXCEPT ![cur.doc] = "processing"]
  /\ \E content \in Blobs : wpush' = newEmbeddingTask(cur, content)
  /\ wq' = "embedding"
  /\ wpc' = "pushRead"
  /\ UNCHANGED <<fileQ, memQ, clock, wsnap, cur, ppc, psnap, ptask, crashes, vectorIndex>>

\* processFile throws (unsupported type, download or parse or database
\* error): its catch saves status 'failed' and rethrows to startWorker.
processFile_throw ==
  /\ wpc = "handle"
  /\ cur.stage = "parse"
  /\ status' = [status EXCEPT ![cur.doc] = "failed"]
  /\ wpc' = "retry"
  /\ UNCHANGED <<fileQ, memQ, clock, wq, wsnap, cur, wpush, ppc, psnap, ptask, crashes, vectorIndex>>

\* processEmbedding returns: the vector task goes to pushVectorStorageTask
processEmbedding_ok ==
  /\ wpc = "handle"
  /\ cur.stage = "embed"
  /\ wpush' = newVectorStorageTask(cur)
  /\ wq' = "vector-storage"
  /\ wpc' = "pushRead"
  /\ UNCHANGED <<fileQ, memQ, status, clock, wsnap, cur, ppc, psnap, ptask, crashes, vectorIndex>>

\* the status processEmbedding's catch leaves behind: it only logs and
\* rethrows
processEmbedding_catchStatus(old) == old

\* processEmbedding throws (embedding service error)
processEmbedding_throw ==
  /\ wpc = "handle"
  /\ cur.stage = "embed"
  /\ status' = [status EXCEPT ![cur.doc] = processEmbedding_catchStatus(@)]
  /\ wpc' = "retry"
  /\ UNCHANGED <<fileQ, memQ, clock, wq, wsnap, cur, wpush, ppc, psnap, ptask, crashes, vectorIndex>>

\* chunk.id values chunkText gives for the text behind the blob: one chunk
\* for a text that fits in a chunk (the empty text too), two for a longer one
chunkIdsOf(blob) == IF blob = "text" THEN {0, 1} ELSE {0}

\* processEmbedding: id: `${task.documentId}_${chunk.id}`
vectorId(documentId, chunkId) == <<documentId, chunkId>>

\* processEmbedding: task.chunks.map((chunk, index) => ({id, values, metadata}))
vectorsOf(task) ==
  {[id |-> vectorId(task.doc, chunkId), documentId |-> task.doc, chunkId |-> chunkId] :
     chunkId \in chunkIdsOf(task.blob)}

\* the records are added whether or not their ids are already stored
pineconeInsert(index, vectors) == index (+) SetToBag(vectors)

\* pineconeIndex.upsert(vectors): a record replaces the stored one of the same id
pineconeUpsert(index, vectors) ==
  LET ids == {v.id : v \in vectors}
      kept == {r \in BagToSet(index) : r.id \notin ids}
  IN [r \in kept |-> index[r]] (+) SetToBag(vectors)

\* processVectorStorage returns: vectors upserted, status 'completed' saved
processVectorStorage_ok ==
  /\ wpc = "handle"
  /\ cur.stage = "index"
  /\ vectorIndex' = pineconeUpsert(vectorIndex, vectorsOf(cur))
  /\ status' = [status EXCEPT ![cur.doc] = "completed"]
  /\ loopTop
  /\ UNCHANGED <<fileQ, memQ, clock, ppc, psnap, ptask, crashes>>

\* processVectorStorage throws, in upsert or after it in the status update:
\* its catch saves status 'failed' and rethrows
processVectorStorage_throw ==
  /\ wpc = "handle"
  /\ cur.stage = "index"
  /\ \/ vectorIndex' = vectorIndex
     \/ vectorIndex' = pineconeUpsert(vectorIndex, vectorsOf(cur))
  /\ status' = [status EXCEPT ![cur.doc] = "failed"]
  /\ wpc' = "retry"
  /\ UNCHANGED <<fileQ, memQ, clock, wq, wsnap, cur, wpush, ppc, psnap, ptask, crashes>>

\* startWorker's catch: retryFailedTask(queueName, task) up to its decision.
\* Within the bound the task goes to pushToQueue with retryCount + 1,
\* otherwise it is given up and the loop continues.
retryFailedTask ==
  /\ wpc = "retry"
  /\ IF retryAllowed(cur)
       THEN /\ wpush' = retryTask(cur)
            /\ wq' = queueOfStage(cur.stage)
            /\ wpc' = "pushRead"
            /\ UNCHANGED <<wsnap, cur>>
       ELSE loopTop
  /\ UNCHANGED <<fileQ, memQ, status, clock, ppc, psnap, ptask, crashes, vectorIndex>>

\* the worker's pushToQueue up to the end of readQueue
pushToQueue_read ==
  /\ wpc = "pushRead"
  /\ wsnap' = readQueue(wq)
  /\ wpc' = "pushWrite"
  /\ UNCHANGED <<fileQ, memQ, status, clock, wq, cur, wpush, ppc, psnap, ptask, crashes, vectorIndex>>

\* the worker's pushToQueue after the read, then `continue`
pushToQueue_write ==
  /\ wpc = "pushWrite"
  /\ fileQ' = writeQueue(wq, itemsPush(wsnap, stamped(wpush)))
  /\ clock' = clock + 1
  /\ loopTop
  /\ UNCHANGED <<memQ, status, ppc, psnap, ptask, crashes, vectorIndex>>

\* no task in any queue: the 500 ms sleep, then the next iteration
workerSleep ==
  /\ wpc = "sleep"
  /\ loopTop
  /\ UNCHANGED <<fileQ, memQ, status, clock, ppc, psnap, ptask, crashes, vectorIndex>>

\* The process dies and is started again: everything held in memory is gone
\* (the worker's locals, the MemoryQueue instances, requests in flight); the
\* queue files and the document store stay as they are.
processRestart ==
  /\ crashes < MaxCrashes
  /\ crashes' = crashes + 1
  /\ memQ' = [q \in QUEUE_NAMES |-> <<>>]
  /\ loopTop
  /\ ppc' = [d \in Docs |-> IF ppc[d] = "write" THEN "aborted" ELSE ppc[d]]
  /\ psnap' = [d \in Docs |-> <<>>]
  /\ ptask' = [d \in Docs |-> NoTask]
  /\ UNCHANGED <<fileQ, status, clock, vectorIndex>>

(* ------------------------------------------------------------------ *)
(* app/api/chat/route.ts                                               *)
(* ------------------------------------------------------------------ *)

\* data: {type: 'content', content} for a fragment of the completion
contentEvent == [type |-> "content", kind |-> "token", sources |-> 0, recommendations |-> 0]

\* the default greeting sent when aiResponse is empty at the end of the stream
defaultEvent == [type |-> "content", kind |-> "default", sources |-> 0, recommendations |-> 0]

\* the apology sent by the stream's catch
apologyEvent == [type |-> "content", kind |-> "apology", sources |-> 0, recommendations |-> 0]

\* the final event of the normal path: the deduplicated sources and the
\* recommendations
finalEvent(sources, recommendations) ==
  [type |-> "final", kind |-> "final", sources |-> sources,
   recommendations |-> recommendations]

\* the final event of the stream's catch: sources: relevantContext.map(...),
\* recommendations: []
finalEventOnError(relevantContextLength) == finalEvent(relevantContextLength, 0)

\* how many entries uniqueSources can hold for the given numbers of
\* documents and multimedia results (one per distinct filename)
uniqueSourcesSizes(documents, multimedia) ==
  IF documents + multimedia = 0 THEN {0} ELSE 1..(documents + multimedia)

\* the outer catch of POST: NextResponse.json({error}, {status: 500})
jsonError ==
  /\ response' = "json500"
  /\ cpc' = "done"
  /\ UNCHANGED <<out, closed, nCtx, nMm, gotContent, reads>>

\* `if (!message)`: 400 without any retrieval
chatRejected ==
  /\ cpc = "request"
  /\ response' = "json400"
  /\ cpc' = "done"
  /\ UNCHANGED <<out, closed, upstream, nCtx, nMm, gotContent, reads>>

\* createEmbedding, the index query, the multimedia search and rerankWithBGE
\* return: at most 3 reranked documents and at most top_k multimedia results
\* (none when the multimedia search fails, which is caught)
chatRetrieved ==
  /\ cpc = "request"
  /\ \E documents \in 0..RerankTopK, multimedia \in 0..MultimediaTopK :
       /\ nCtx' = documents
       /\ nMm' = multimedia
  /\ cpc' = "fetch"
  /\ UNCHANGED <<response, out, closed, upstream, gotContent, reads>>

\* createEmbedding or the index query throws: the outer catch answers 500
chatRetrievalThrows ==
  /\ cpc = "request"
  /\ jsonError
  /\ UNCHANGED upstream

\* `await fetch(SILICONFLOW_API_URL)` rejects: the outer catch answers 500
chatFetchThrows ==
  /\ cpc = "fetch"
  /\ upstream' = "unreachable"
  /\ jsonError

\* `if (!response.ok) throw`: the outer catch answers 500
chatUpstreamNotOk ==
  /\ cpc = "fetch"
  /\ upstream' = "nonOK"
  /\ jsonError

\* response.ok: POST returns the event stream and start(controller) runs
chatStreamReturned ==
  /\ cpc = "fetch"
  /\ \E body \in {"ok", "noBody"} : upstream' = body
  /\ response' = "stream"
  /\ cpc' = "start"
  /\ UNCHANGED <<out, closed, nCtx, nMm, gotContent, reads>>

\* the catch of start(controller): the apology, then the final event with
\* the documents as sources, then close
streamCatch ==
  /\ out' = out \o <<apologyEvent, finalEventOnError(nCtx)>>
  /\ closed' = TRUE
  /\ cpc' = "done"
  /\ UNCHANGED <<response, nCtx, nMm, gotContent, reads>>

\* `if (!reader) throw new Error('No response body')`
streamNoBody ==
  /\ cpc = "start"
  /\ upstream = "noBody"
  /\ streamCatch
  /\ UNCHANGED upstream

\* getReader() succeeded
streamReaderOpened ==
  /\ cpc = "start"
  /\ upstream = "ok"
  /\ cpc' = "reading"
  /\ UNCHANGED <<response, out, closed, upstream, nCtx, nMm, gotContent, reads>>

\* reader.read() returns a chunk whose lines carry a content fragment, which
\* is forwarded as a content event
streamReadContent ==
  /\ cpc = "reading"
  /\ reads < MaxReads
  /\ reads' = reads + 1
  /\ out' = Append(out, contentEvent)
  /\ gotContent' = TRUE
  /\ UNCHANGED <<cpc, response, closed, upstream, nCtx, nMm>>

\* reader.read() returns a chunk with nothing to forward (blank, [DONE], a
\* delta without content, a line that does not parse)
streamReadNothing ==
  /\ cpc = "reading"
  /\ reads < MaxReads
  /\ reads' = reads + 1
  /\ UNCHANGED <<cpc, response, out, closed, upstream, nCtx, nMm, gotContent>>

\* reader.read() rejects in the middle of the stream
streamReadThrows ==
  /\ cpc = "reading"
  /\ upstream' = "midStreamError"
  /\ streamCatch

\* reader.read() returns done: the default greeting when nothing was
\* received, generateRecommendations, the deduplicated sources, the final
\* event, close
streamDone ==
  /\ cpc = "reading"
  /\ \E sources \in uniqueSourcesSizes(nCtx, nMm), recommendations \in 0..MaxRecommendations :
       out' = (IF gotContent THEN out ELSE Append(out, defaultEvent))
                \o <<finalEvent(sources, recommendations)>>
  /\ upstream' = IF gotContent THEN "ok" ELSE "empty"
  /\ closed' = TRUE
  /\ cpc' = "done"
  /\ UNCHANGED <<response, nCtx, nMm, gotContent, reads>>

vars == <<ingestVars, chatVars, funVars>>

\* Ingestion requests through the file queue and the worker. New requests
\* and new loop iterations stop once MaxEnqueues tasks have been written.
Next ==
  \/ clock < MaxEnqueues /\ (\E d \in Docs : pushFileProcessingTask_read(d)) /\ UNCHANGED <<chatVars, funVars>>
  \/ (\E d \in Docs : pushFileProcessingTask_write(d)) /\ UNCHANGED <<chatVars, funVars>>
  \/ clock < MaxEnqueues /\ popFromQueue_read /\ UNCHANGED <<chatVars, funVars>>
  \/ popFromQueue_write /\ UNCHANGED <<chatVars, funVars>>
  \/ processFile_ok /\ UNCHANGED <<chatVars, funVars>>
  \/ processFile_throw /\ UNCHANGED <<chatVars, funVars>>
  \/ processEmbedding_ok /\ UNCHANGED <<chatVars, funVars>>
  \/ processEmbedding_throw /\ UNCHANGED <<chatVars, funVars>>
  \/ processVectorStorage_ok /\ UNCHANGED <<chatVars, funVars>>
  \/ processVectorStorage_throw /\ UNCHANGED <<chatVars, funVars>>
  \/ retryFailedTask /\ UNCHANGED <<chatVars, funVars>>
  \/ pushToQueue_read /\ UNCHANGED <<chatVars, funVars>>
  \/ pushToQueue_write /\ UNCHANGED <<chatVars, funVars>>
  \/ workerSleep /\ UNCHANGED <<chatVars, funVars>>

Spec == Init /\ [][Next]_vars

\* The same with the upload route and process restarts, and a longer run.
DeployNext ==
  \/ clock < MaxDeepEnqueues /\ (\E d \in Docs : pushFileProcessingTask_read(d)) /\ UNCHANGED <<chatVars, funVars>>
  \/ (\E d \in Docs : pushFileProcessingTask_write(d)) /\ UNCHANGED <<chatVars, funVars>>
  \/ (\E d \in Docs : uploadPOST(d)) /\ UNCHANGED <<chatVars, funVars>>
  \/ clock < MaxDeepEnqueues /\ popFromQueue_read /\ UNCHANGED <<chatVars, funVars>>
  \/ popFromQueue_write /\ UNCHANGED <<chatVars, funVars>>
  \/ processFile_ok /\ UNCHANGED <<chatVars, funVars>>
  \/ processFile_throw /\ UNCHANGED <<chatVars, funVars>>
  \/ processEmbedding_ok /\ UNCHANGED <<chatVars, funVars>>
  \/ processEmbedding_throw /\ UNCHANGED <<chatVars, funVars>>
  \/ processVectorStorage_ok /\ UNCHANGED <<chatVars, funVars>>
  \/ processVectorStorage_throw /\ UNCHANGED <<chatVars, funVars>>
  \/ retryFailedTask /\ UNCHANGED <<chatVars, funVars>>
  \/ pushToQueue_read /\ UNCHANGED <<chatVars, funVars>>
  \/ pushToQueue_write /\ UNCHANGED <<chatVars, funVars>>
  \/ workerSleep /\ UNCHANGED <<chatVars, funVars>>
  \/ processRestart /\ UNCHANGED <<chatVars, funVars>>

DeploySpec == Init /\ [][DeployNext]_vars

\* Ingestion requests that arrive one after the other, and a run long
\* enough for a stage to be retried and run again.
IndexNext ==
  \/ /\ clock < MaxIndexEnqueues
     /\ \A e \in Docs : ppc[e] # "write"
     /\ \E d \in Docs : pushFileProcessingTask_read(d)
     /\ UNCHANGED <<chatVars, funVars>>
  \/ (\E d \in Docs : pushFileProcessingTask_write(d)) /\ UNCHANGED <<chatVars, funVars>>
  \/ clock < MaxIndexEnqueues /\ popFromQueue_read /\ UNCHANGED <<chatVars, funVars>>
  \/ popFromQueue_write /\ UNCHANGED <<chatVars, funVars>>
  \/ processFile_ok /\ UNCHANGED <<chatVars, funVars>>
  \/ processFile_throw /\ UNCHANGED <<chatVars, funVars>>
  \/ processEmbedding_ok /\ UNCHANGED <<chatVars, funVars>>
  \/ processEmbedding_throw /\ UNCHANGED <<chatVars, funVars>>
  \/ processVectorStorage_ok /\ UNCHANGED <<chatVars, funVars>>
  \/ processVectorStorage_throw /\ UNCHANGED <<chatVars, funVars>>
  \/ retryFailedTask /\ UNCHANGED <<chatVars, funVars>>
  \/ pushToQueue_read /\ UNCHANGED <<chatVars, funVars>>
  \/ pushToQueue_write /\ UNCHANGED <<chatVars, funVars>>
  \/ workerSleep /\ UNCHANGED <<chatVars, funVars>>

IndexSpec == Init /\ [][IndexNext]_vars

\* One chat request.
ChatNext ==
  \/ chatRejected /\ UNCHANGED <<ingestVars, funVars>>
  \/ chatRetrieved /\ UNCHANGED <<ingestVars, funVars>>
  \/ chatRetrievalThrows /\ UNCHANGED <<ingestVars, funVars>>
  \/ chatFetchThrows /\ UNCHANGED <<ingestVars, funVars>>
  \/ chatUpstreamNotOk /\ UNCHANGED <<ingestVars, funVars>>
  \/ chatStreamReturned /\ UNCHANGED <<ingestVars, funVars>>
  \/ streamNoBody /\ UNCHANGED <<ingestVars, funVars>>
  \/ streamReaderOpened /\ UNCHANGED <<ingestVars, funVars>>
  \/ streamReadContent /\ UNCHANGED <<ingestVars, funVars>>
  \/ streamReadNothing /\ UNCHANGED <<ingestVars, funVars>>
  \/ streamReadThrows /\ UNCHANGED <<ingestVars, funVars>>
  \/ streamDone /\ UNCHANGED <<ingestVars, funVars>>

ChatSpec == Init /\ [][ChatNext]_vars

(* ------------------------------------------------------------------ *)
(* app/api/chat/route.ts: the `sources` of the final event             *)
(* ------------------------------------------------------------------ *)

\* all sequences over S of length at most n
SeqsUpTo(S, n) == UNION {[1..k -> S] : k \in 0..n}

\* metadata.filename of the retrieved chunks and multimedia items
Filenames == {"a.pdf", "b.mp4"}

\* scores are counted in thousandths: 600 is 0.6
ContextScores == {600, 720}

MultimediaScores == {500, 600}

\* score: result.score * 1.2
boostedScore(score) == (score * 12) \div 10

\* the entry uniqueSources gets for relevantContext[index]
documentSource(ctx, index) ==
  [filename |-> ctx.filename, score |-> ctx.score, type |-> "document",
   referenceId |-> index]

\* multimediaContext[index] as the entry uniqueSources gets for it
multimediaSource(result, index) ==
  [filename |-> result.filename, score |-> boostedScore(result.score),
   type |-> "multimedia", referenceId |-> index]

\* if (!uniqueSources.has(filename) || uniqueSources.get(filename).score < ctx.score)
\*   uniqueSources.set(filename, entry)
\* A Map keeps the position of a key that is set again.
uniqueSourcesSet(uniqueSources, entry) ==
  IF \E i \in 1..Len(uniqueSources) : uniqueSources[i].filename = entry.filename
    THEN LET i == CHOOSE j \in 1..Len(uniqueSources) :
                      uniqueSources[j].filename = entry.filename
         IN IF uniqueSources[i].score < entry.score
              THEN [uniqueSources EXCEPT ![i] = entry]
              ELSE uniqueSources
    ELSE Append(uniqueSources, entry)

\* candidates.forEach(...) over the entries from position `from` on
RECURSIVE uniqueSourcesForEach(_, _, _)
uniqueSourcesForEach(uniqueSources, entries, from) ==
  IF from > Len(entries) THEN uniqueSources
  ELSE uniqueSourcesForEach(uniqueSourcesSet(uniqueSources, entries[from]),
                            entries, from + 1)

\* one step of a stable sort by descending score: e goes behind every
\* element whose score is not smaller
insertByScore(sorted, e) ==
  LET k == Cardinality({i \in 1..Len(sorted) : sorted[i].score >= e.score})
  IN SubSeq(sorted, 1, k) \o <<e>> \o SubSeq(sorted, k + 1, Len(sorted))

\* items.sort((a, b) => b.score - a.score), a stable sort
RECURSIVE sortByScoreDesc(_)
sortByScoreDesc(items) ==
  IF items = <<>> THEN <<>>
  ELSE insertByScore(sortByScoreDesc(SubSeq(items, 1, Len(items) - 1)),
                     items[Len(items)])

\* Array.from(uniqueSources.values()).sort(...) of the normal path
allSources(context, results) ==
  LET documents == [i \in 1..Len(context) |-> documentSource(context[i], i)]
      multimedia == [i \in 1..Len(results) |-> multimediaSource(results[i], i)]
  IN sortByScoreDesc(
       uniqueSourcesForEach(uniqueSourcesForEach(<<>>, documents, 1), multimedia, 1))

\* sources: relevantContext.map(ctx => ({filename, content, score})) of the catch
sourcesOnError(context) ==
  [i \in 1..Len(context) |-> [filename |-> context[i].filename, score |-> context[i].score]]

\* the end of the stream on the normal path: finalData.sources
sourcesFinal ==
  /\ spc = "none"
  /\ finalSources' = allSources(relevantContext, multimediaResults)
  /\ spc' = "final"
  /\ UNCHANGED <<relevantContext, multimediaResults>>

\* the catch of start(controller): finalData.sources
sourcesFinalOnError ==
  /\ spc = "none"
  /\ finalSources' = sourcesOnError(relevantContext)
  /\ spc' = "finalOnError"
  /\ UNCHANGED <<relevantContext, multimediaResults>>

\* A chat request that reached the stream with its retrieval results.
SourcesInit ==
  /\ SystemInit
  /\ routeIdle
  /\ embedIdle
  /\ relevantContext \in
       SeqsUpTo([filename : Filenames, score : ContextScores], MaxSources)
  /\ multimediaResults \in
       SeqsUpTo([filename : Filenames, score : MultimediaScores], MaxSources)
  /\ finalSources = <<>>
  /\ spc = "none"
  /\ rerankIdle
  /\ recommendIdle
  /\ chunkIdle

SourcesNext ==
  \/ sourcesFinal /\ UNCHANGED <<ingestVars, chatVars, rerankVars, recommendVars, chunkVars, routeVars, embedVars>>
  \/ sourcesFinalOnError /\ UNCHANGED <<ingestVars, chatVars, rerankVars, recommendVars, chunkVars, routeVars, embedVars>>

SourcesSpec == SourcesInit /\ [][SourcesNext]_vars

(* ------------------------------------------------------------------ *)
(* lib/reranker.ts (unnamed/part_006)                                  *)
(* ------------------------------------------------------------------ *)

\* scores are counted in thousandths: 500 is 0.5
MatchScores == {500, 800}

\* item.relevance_score values of the rerank endpoint
RelevanceScores == {200, 900}

\* what 0.3 * keywordScore + 0.2 * lengthScore adds to a candidate in the
\* similarity scoring
SimilarityBonuses == {0, 300}

\* how the call to the rerank endpoint ends: SILICONFLOW_API_KEY missing,
\* fetch rejects, a non-OK response, or a response that parses
RerankOutcomes == {"noKey", "networkError", "nonOK", "ok"}

\* items.slice(0, n)
sliceTo(items, n) == SubSeq(items, 1, IF n < Len(items) THEN n ELSE Len(items))

\* rerankBySimilarity's catch: matches.slice(0, topK) with the scores as they are
lastResort(ms, k) ==
  [i \in 1..Len(sliceTo(ms, k)) |->
     [content |-> ms[i].content, score |-> ms[i].score,
      originalScore |-> ms[i].score, rerankScore |-> ms[i].score]]

\* the catch of rerankBySimilarity passing the error on
similarityCatchRethrows(ms, k) == Threw

\* catch (error) { return matches.slice(0, topK).map(...) }
similarityCatch(ms, k) == Returned(lastResort(ms, k))

\* (match.score * 0.5) + (keywordScore * 0.3) + (lengthScore * 0.2)
similarityScore(score, bonus) == (score * 5) \div 10 + bonus

\* matches.map(match => ({..., score: combinedScore, ...}))
scoredMatches(ms, bonus) ==
  [i \in 1..Len(ms) |->
     [content |-> ms[i].content, score |-> similarityScore(ms[i].score, bonus[i]),
      originalScore |-> ms[i].score,
      rerankScore |-> similarityScore(ms[i].score, bonus[i])]]

\* rerankBySimilarity: the scoring throws when a word of the query is not a
\* valid regular expression (new RegExp(word, 'g')) and the catch answers
rerankBySimilarity(ms, k, sim) ==
  IF sim.throws THEN similarityCatch(ms, k)
  ELSE Returned(sliceTo(sortByScoreDesc(scoredMatches(ms, sim.bonus)), k))

\* the weights of the two scores exchanged
combinedScoreSwapped(originalScore, relevanceScore) ==
  (originalScore * 7 + relevanceScore * 3) \div 10

\* (originalMatch.score * 0.3) + (item.relevance_score * 0.7)
combinedScore(originalScore, relevanceScore) ==
  (originalScore * 3 + relevanceScore * 7) \div 10

\* for (const item of result.results): matches[item.index], skipped when
\* there is no such candidate
RECURSIVE rerankedOf(_, _, _)
rerankedOf(ms, results, from) ==
  IF from > Len(results) THEN <<>>
  ELSE LET item == results[from]
       IN (IF item.index < Len(ms)
             THEN LET originalMatch == ms[item.index + 1]
                  IN <<[content |-> originalMatch.content,
                        score |-> combinedScore(originalMatch.score, item.relevance_score),
                        originalScore |-> originalMatch.score,
                        rerankScore |-> IF item.relevance_score # 0
                                          THEN item.relevance_score
                                          ELSE originalMatch.score]>>
             ELSE <<>>)
          \o rerankedOf(ms, results, from + 1)

\* the try block of rerankWithBGE
rerankTry(ms, k, api, sim) ==
  CASE api.outcome = "noKey" -> rerankBySimilarity(ms, k, sim)
    [] api.outcome = "networkError" -> Threw
    [] api.outcome = "nonOK" -> rerankBySimilarity(ms, k, sim)
    [] api.outcome = "ok" ->
         IF rerankedOf(ms, api.results, 1) = <<>>
           THEN rerankBySimilarity(ms, k, sim)
           ELSE Returned(sortByScoreDesc(rerankedOf(ms, api.results, 1)))

\* rerankWithBGE(query, matches, topK)
rerankWithBGE(ms, k, api, sim) ==
  IF Len(ms) = 0 THEN Returned(<<>>)
  ELSE IF rerankTry(ms, k, api, sim).threw
         THEN rerankBySimilarity(ms, k, sim)
         ELSE rerankTry(ms, k, api, sim)

\* a caller awaits rerankWithBGE
rerankCall ==
  /\ rpc = "call"
  /\ rerankedResults' = rerankWithBGE(matches, topK, rerankApi, similarity)
  /\ rpc' = "returned"
  /\ UNCHANGED <<matches, topK, rerankApi, similarity>>

\* the candidates: the i-th has content i and one of the scores
Candidates ==
  {[i \in 1..Len(scores) |-> [content |-> i, score |-> scores[i]]] :
     scores \in SeqsUpTo(MatchScores, MaxMatches)}

\* A call of rerankWithBGE with its arguments and its environment.
RerankInit ==
  /\ SystemInit
  /\ routeIdle
  /\ embedIdle
  /\ sourcesIdle
  /\ matches \in Candidates
  /\ topK \in 1..MaxTopK
  /\ rerankApi \in
       [outcome : RerankOutcomes \ {"ok"}, results : {<<>>}]
       \cup [outcome : {"ok"},
             results : SeqsUpTo([index : 0..MaxMatches, relevance_score : RelevanceScores],
                                MaxApiResults)]
  /\ similarity \in
       [throws : BOOLEAN, bonus : [1..Len(matches) -> SimilarityBonuses]]
  /\ rerankedResults = Returned(<<>>)
  /\ rpc = "call"
  /\ recommendIdle
  /\ chunkIdle

RerankNext ==
  \/ rerankCall /\ UNCHANGED <<ingestVars, chatVars, sourcesVars, recommendVars, chunkVars, routeVars, embedVars>>

RerankSpec == RerankInit /\ [][RerankNext]_vars

(* ------------------------------------------------------------------ *)
(* lib/recommendation-engine.ts                                        *)
(* ------------------------------------------------------------------ *)

\* config.categories of the constructor (the five category names, in English)
RecommendationCategories ==
  {"basic-concepts", "practice", "case-study", "deep-dive", "related-topics"}

\* config.relevanceThreshold 0.6, in thousandths
relevanceThreshold == 600

\* categories and scores of the scored candidates
QuestionCategories == {"basic-concepts", "deep-dive"}

QuestionScores == {500, 700}

\* applyDiversityFilter: the filtered list after the questions from `from` on
RECURSIVE applyDiversityFilter(_, _, _, _)
applyDiversityFilter(questions, from, filtered, usedCategories) ==
  IF from > Len(questions) THEN filtered
  ELSE LET question == questions[from]
       IN IF /\ question.relevanceScore >= relevanceThreshold
             /\ \/ question.category \notin usedCategories
                \/ Cardinality(usedCategories) < Cardinality(RecommendationCategories)
            THEN applyDiversityFilter(questions, from + 1, Append(filtered, question),
                                      usedCategories \cup {question.category})
            ELSE applyDiversityFilter(questions, from + 1, filtered, usedCategories)

\* getFallbackRecommendations: three fixed questions
getFallbackRecommendations ==
  <<[category |-> "basic-concepts", relevanceScore |-> 600],
    [category |-> "practice", relevanceScore |-> 600],
    [category |-> "related-topics", relevanceScore |-> 600]>>

\* generateRecommendations: the try block from the diversity filter on, or
\* the catch when a step throws
generateRecommendations(questions, throws, max) ==
  IF throws THEN getFallbackRecommendations
  ELSE sliceTo(applyDiversityFilter(questions, 1, <<>>, {}), max)

\* a caller awaits generateRecommendations
recommendCall ==
  /\ gpc = "call"
  /\ recommended' =
       generateRecommendations(scoredQuestions, stepThrows, maxRecommendations)
  /\ gpc' = "returned"
  /\ UNCHANGED <<maxRecommendations, scoredQuestions, stepThrows>>

\* An engine constructed with some maxRecommendations, and one call of
\* generateRecommendations: scoreQuestions returns the candidates sorted by
\* descending relevanceScore.
RecommendInit ==
  /\ SystemInit
  /\ routeIdle
  /\ embedIdle
  /\ sourcesIdle
  /\ rerankIdle
  /\ maxRecommendations \in 1..MaxConfigured
  /\ scoredQuestions \in
       {q \in SeqsUpTo([category : QuestionCategories, relevanceScore : QuestionScores],
                       MaxQuestions) :
          \A i \in 1..(Len(q) - 1) : q[i].relevanceScore >= q[i + 1].relevanceScore}
  /\ stepThrows \in BOOLEAN
  /\ recommended = <<>>
  /\ gpc = "call"
  /\ chunkIdle

RecommendNext ==
  \/ recommendCall /\ UNCHANGED <<ingestVars, chatVars, sourcesVars, rerankVars, chunkVars, routeVars, embedVars>>

RecommendSpec == RecommendInit /\ [][RecommendNext]_vars

(* ------------------------------------------------------------------ *)
(* lib/document-parser.ts chunkText                                     *)
(* ------------------------------------------------------------------ *)

\* A string is a sequence of characters; a character is its value c and
\* the position pos it has in the document text (-1 for a blank that the
\* chunker puts in itself).
blank == [c |-> " ", pos |-> -1]

\* pageNumber: null
nullPage == 0

\* the characters /[.!?]/ matches
isDelimiter(ch) == ch.c \in {".", "!", "?"}

\* the characters /\s/ matches
isSpace(ch) == ch.c \in {" ", "\n"}

\* the smallest and the largest of a non-empty set of numbers
minOf(S) == CHOOSE x \in S : \A y \in S : x <= y

maxOf(S) == CHOOSE x \in S : \A y \in S : y <= x

\* str.trim()
trim(str) ==
  LET solid == {i \in 1..Len(str) : ~isSpace(str[i])}
  IN IF solid = {} THEN <<>> ELSE SubSeq(str, minOf(solid), maxOf(solid))

\* the pieces of str between delimiters, from position i on, piece being the
\* piece read so far
RECURSIVE splitSentences(_, _, _)
splitSentences(str, i, piece) ==
  IF i > Len(str) THEN <<piece>>
  ELSE IF isDelimiter(str[i]) THEN <<piece>> \o splitSentences(str, i + 1, <<>>)
  ELSE splitSentences(str, i + 1, Append(piece, str[i]))

\* the pieces that are not blank
RECURSIVE nonBlank(_, _)
nonBlank(pieces, i) ==
  IF i > Len(pieces) THEN <<>>
  ELSE (IF trim(pieces[i]) # <<>> THEN <<pieces[i]>> ELSE <<>>) \o nonBlank(pieces, i + 1)

\* str.split(/[.!?]+/).filter(s => s.trim().length > 0)
sentencesOf(str) == nonBlank(splitSentences(str, 1, <<>>), 1)

\* str.split(' ')
RECURSIVE splitWords(_, _, _)
splitWords(str, i, piece) ==
  IF i > Len(str) THEN <<piece>>
  ELSE IF str[i].c = " " THEN <<piece>> \o splitWords(str, i + 1, <<>>)
  ELSE splitWords(str, i + 1, Append(piece, str[i]))

\* words.join(' ')
RECURSIVE joinWords(_, _)
joinWords(words, i) ==
  IF i > Len(words) THEN <<>>
  ELSE IF i = Len(words) THEN words[i]
  ELSE words[i] \o <<blank>> \o joinWords(words, i + 1)

\* words.slice(-n): slice(-0) is slice(0), the whole array
sliceLast(words, n) ==
  IF n = 0 \/ n >= Len(words) THEN words
  ELSE SubSeq(words, Len(words) - n + 1, Len(words))

\* currentChunk.split(' ').slice(-Math.floor(overlap / 10)).join(' ')
overlapText(currentChunk, ov) ==
  joinWords(sliceLast(splitWords(currentChunk, 1, <<>>), ov \div 10), 1)

\* chunks.push({content, pageNumber, startChar, endChar, chunkIndex})
chunkOf(content, pageNumber, startChar, endChar, chunkIndex) ==
  [content |-> content, pageNumber |-> pageNumber, startChar |-> startChar,
   endChar |-> endChar, chunkIndex |-> chunkIndex]

\* the no-page branch: one turn of `for (const sentence of sentences)`
sentenceStep(st, sentence, size, ov) ==
  LET trimmedSentence == trim(sentence)
  IN IF Len(st.currentChunk) + Len(trimmedSentence) > size /\ Len(st.currentChunk) > 0
       THEN [currentChunk |-> overlapText(st.currentChunk, ov) \o <<blank>> \o trimmedSentence,
             chunkIndex |-> st.chunkIndex + 1,
             currentPos |-> st.currentPos + Len(trimmedSentence) + 1,
             chunks |-> Append(st.chunks,
                               chunkOf(trim(st.currentChunk), nullPage,
                                       st.currentPos - Len(st.currentChunk),
                                       st.currentPos - 1, st.chunkIndex))]
       ELSE [currentChunk |-> st.currentChunk
                                \o (IF st.currentChunk # <<>> THEN <<blank>> ELSE <<>>)
                                \o trimmedSentence,
             chunkIndex |-> st.chunkIndex,
             currentPos |-> st.currentPos + Len(trimmedSentence) + 1,
             chunks |-> st.chunks]

RECURSIVE sentenceLoop(_, _, _, _, _)
sentenceLoop(st, sentences, i, size, ov) ==
  IF i > Len(sentences) THEN st
  ELSE sentenceLoop(sentenceStep(st, sentences[i], size, ov), sentences, i + 1, size, ov)

\* the no-page branch of chunkText
chunkTextNoPages(str, size, ov) ==
  LET st == sentenceLoop([currentChunk |-> <<>>, chunkIndex |-> 0, currentPos |-> 0,
                          chunks |-> <<>>],
                         sentencesOf(str), 1, size, ov)
  IN IF trim(st.currentChunk) # <<>>
       THEN Append(st.chunks,
                   chunkOf(trim(st.currentChunk), nullPage,
                           st.currentPos - Len(st.currentChunk), st.currentPos - 1,
                           st.chunkIndex))
       ELSE st.chunks

\* the page branch: one turn of the loop over the sentences of a page
pageSentenceStep(st, sentence, page, size, ov) ==
  LET trimmedSentence == trim(sentence)
      chunkEndChar == st.chunkStartChar + Len(st.currentChunk) - 1
  IN IF Len(st.currentChunk) + Len(trimmedSentence) > size /\ Len(st.currentChunk) > 0
       THEN [currentChunk |-> overlapText(st.currentChunk, ov) \o <<blank>> \o trimmedSentence,
             chunkStartChar |-> chunkEndChar - Len(overlapText(st.currentChunk, ov)),
             chunkIndex |-> st.chunkIndex + 1,
             chunks |-> Append(st.chunks,
                               chunkOf(trim(st.currentChunk), page.pageNumber,
                                       st.chunkStartChar, chunkEndChar, st.chunkIndex))]
       ELSE [currentChunk |-> st.currentChunk
                                \o (IF st.currentChunk # <<>> THEN <<blank>> ELSE <<>>)
                                \o trimmedSentence,
             chunkStartChar |-> st.chunkStartChar,
             chunkIndex |-> st.chunkIndex,
             chunks |-> st.chunks]

RECURSIVE pageSentenceLoop(_, _, _, _, _, _)
pageSentenceLoop(st, sentences, i, page, size, ov) ==
  IF i > Len(sentences) THEN st
  ELSE pageSentenceLoop(pageSentenceStep(st, sentences[i], page, size, ov),
                        sentences, i + 1, page, size, ov)

\* `let chunkIndex = 0` moved into the loop over the pages
pageFirstIndexRestarts(chunkIndex) == 0

\* the chunkIndex a page starts with: the counter is declared before the
\* loop over the pages and runs on
pageFirstIndex(chunkIndex) == chunkIndex

\* one turn of `for (const page of pages)`: acc holds the chunks so far and
\* the running chunkIndex
pageStep(acc, page, size, ov) ==
  IF Len(page.content) <= size
    THEN [chunks |-> Append(acc.chunks,
                            chunkOf(page.content, page.pageNumber, page.startChar,
                                    page.endChar, pageFirstIndex(acc.chunkIndex))),
          chunkIndex |-> pageFirstIndex(acc.chunkIndex) + 1]
    ELSE LET st == pageSentenceLoop([currentChunk |-> <<>>,
                                     chunkStartChar |-> page.startChar,
                                     chunkIndex |-> pageFirstIndex(acc.chunkIndex),
                                     chunks |-> acc.chunks],
                                    sentencesOf(page.content), 1, page, size, ov)
         IN IF trim(st.currentChunk) # <<>>
              THEN [chunks |-> Append(st.chunks,
                                      chunkOf(trim(st.currentChunk), page.pageNumber,
                                              st.chunkStartChar, page.endChar,
                                              st.chunkIndex)),
                    chunkIndex |-> st.chunkIndex + 1]
              ELSE [chunks |-> st.chunks, chunkIndex |-> st.chunkIndex]

RECURSIVE pageLoop(_, _, _, _, _)
pageLoop(acc, pgs, i, size, ov) ==
  IF i > Len(pgs) THEN acc
  ELSE pageLoop(pageStep(acc, pgs[i], size, ov), pgs, i + 1, size, ov)

\* chunkText(text, chunkSize, overlap, pages) of lib/document-parser.ts
chunkText(str, size, ov, pgs) ==
  IF Len(pgs) > 0
    THEN pageLoop([chunks |-> <<>>, chunkIndex |-> 0], pgs, 1, size, ov).chunks
    ELSE chunkTextNoPages(str, size, ov)

(* ------------------------------------------------------------------ *)
(* workers/file-processor.ts chunkText                                  *)
(* ------------------------------------------------------------------ *)

\* text.replace(/\s+/g, ' '): every run of white space becomes one blank
RECURSIVE collapseSpaces(_, _)
collapseSpaces(str, i) ==
  IF i > Len(str) THEN <<>>
  ELSE IF isSpace(str[i])
         THEN (IF i > 1 /\ isSpace(str[i - 1]) THEN <<>> ELSE <<[c |-> " ", pos |-> str[i].pos]>>)
              \o collapseSpaces(str, i + 1)
         ELSE <<str[i]>> \o collapseSpaces(str, i + 1)

\* str.lastIndexOf(c, fromIndex), positions counted from 0, -1 when absent
lastIndexOf(str, c, fromIndex) ==
  LET found == {j \in 0..fromIndex : j < Len(str) /\ str[j + 1].c = c}
  IN IF found = {} THEN -1 ELSE maxOf(found)

\* str.slice(start, end), positions counted from 0
sliceOf(str, start, end) ==
  SubSeq(str, start + 1, IF end < Len(str) THEN end ELSE Len(str))

\* the end of the chunk that starts at `start`: moved back to the last
\* period, newline or blank when that lies in the second half of the chunk
chunkEnd(cleanText, start, size) ==
  LET end == start + size
      breakPoint == maxOf({lastIndexOf(cleanText, ".", end),
                           lastIndexOf(cleanText, "\n", end),
                           lastIndexOf(cleanText, " ", end)})
  IN IF end < Len(cleanText) /\ 2 * breakPoint > 2 * start + size
       THEN breakPoint + 1
       ELSE end

\* while (start < cleanText.length) { ... }
RECURSIVE workerChunkLoop(_, _, _, _, _, _)
workerChunkLoop(cleanText, start, chunkIndex, size, ov, acc) ==
  IF start >= Len(cleanText) THEN acc
  ELSE LET end == chunkEnd(cleanText, start, size)
           chunkContent == trim(sliceOf(cleanText, start, end))
           next == IF end - ov > start + 1 THEN end - ov ELSE start + 1
       IN IF Len(chunkContent) > 0
            THEN workerChunkLoop(cleanText, next, chunkIndex + 1, size, ov,
                                 Append(acc, [id |-> chunkIndex, content |-> chunkContent,
                                              chunkIndex |-> chunkIndex,
                                              startPosition |-> start,
                                              endPosition |-> end]))
            ELSE workerChunkLoop(cleanText, next, chunkIndex, size, ov, acc)

\* chunkText(text, chunkSize, overlap) of workers/file-processor.ts
workerChunkText(str, size, ov) ==
  LET cleanText == trim(collapseSpaces(str, 1))
  IN IF Len(cleanText) <= size
       THEN <<[id |-> 0, content |-> cleanText, chunkIndex |-> 0]>>
       ELSE workerChunkLoop(cleanText, 0, 0, size, ov, <<>>)

(* ------------------------------------------------------------------ *)
(* Calls of the two chunkText functions                                 *)
(* ------------------------------------------------------------------ *)

\* the characters of the texts: a letter, a sentence delimiter, a blank
Alphabet == {"A", ".", " "}

\* the string with these character values, each at its position
textOf(values) == [i \in 1..Len(values) |-> [c |-> values[i], pos |-> i - 1]]

\* the text "A. B. C."
ScenarioText == textOf(<<"A", ".", " ", "B", ".", " ", "C", ".">>)

Texts == {textOf(values) : values \in SeqsUpTo(Alphabet, MaxTextLen)} \cup {ScenarioText}

\* overlap values: slice(-0), the last word, the last 20 words (the default)
Overlaps == {0, 10, DefaultOverlap}

\* the page of a text from position startChar up to endChar (exclusive), as
\* the parsers build it: the content trimmed, endChar inclusive
pageOf(str, pageNumber, startChar, endChar) ==
  [pageNumber |-> pageNumber, content |-> trim(sliceOf(str, startChar, endChar)),
   startChar |-> startChar, endChar |-> endChar - 1]

\* the page maps of a text: none, or the text cut in two pages at k (a page
\* without content is left out)
PageMaps(str) ==
  {<<>>} \cup
  {SelectSeq(<<pageOf(str, 1, 0, k), pageOf(str, 2, k, Len(str))>>,
             LAMBDA page : page.content # <<>>) : k \in 1..Len(str)}

\* parseDocument's caller chunks the text with lib/document-parser.ts
chunkTextCall ==
  /\ kpc = "call"
  /\ chunks' = chunkText(text, chunkSize, overlap, pages)
  /\ kpc' = "parser"
  /\ UNCHANGED <<text, chunkSize, overlap, pages>>

\* processFile chunks the text with the worker's own chunkText (no pages)
workerChunkTextCall ==
  /\ kpc = "call"
  /\ pages = <<>>
  /\ chunks' = workerChunkText(text, chunkSize, overlap)
  /\ kpc' = "worker"
  /\ UNCHANGED <<text, chunkSize, overlap, pages>>

\* A text with its chunking parameters and page map.
ChunkInit ==
  /\ SystemInit
  /\ routeIdle
  /\ embedIdle
  /\ sourcesIdle
  /\ rerankIdle
  /\ recommendIdle
  /\ text \in Texts
  /\ chunkSize \in 1..MaxChunkSize
  /\ overlap \in Overlaps
  /\ pages \in PageMaps(text)
  /\ chunks = <<>>
  /\ kpc = "call"

ChunkNext ==
  \/ chunkTextCall /\ UNCHANGED <<ingestVars, chatVars, sourcesVars, rerankVars, recommendVars, routeVars, embedVars>>
  \/ workerChunkTextCall /\ UNCHANGED <<ingestVars, chatVars, sourcesVars, rerankVars, recommendVars, routeVars, embedVars>>

ChunkSpec == ChunkInit /\ [][ChunkNext]_vars

(* ------------------------------------------------------------------ *)
(* app/api/chat/route.ts: the matches that go to the reranker          *)
(* ------------------------------------------------------------------ *)

\* the similarity floor of the filter, in thousandths
similarityFloor == 600

\* match.score of the index matches; 0 is a match without a score
\* (`match.score || 0`)
SearchScores == {0, 550, 600, 700, 900}

\* searchResults.matches with these scores, each match with its rank as id
matchesOf(scores) == [i \in 1..Len(scores) |-> [id |-> i, score |-> scores[i]]]

\* filter(match => (match.score || 0) > 0.6)
keepsMatch(match) == match.score > similarityFloor

\* searchResults.matches?.filter(...).map(...) || []
searchMatchesOf(results) == SelectSeq(results, keepsMatch)

\* the index query returns, the matches are filtered and rerankWithBGE is
\* called with what is left
filterCall ==
  /\ fpc = "query"
  /\ searchMatches' = searchMatchesOf(searchResults)
  /\ fpc' = "rerank"
  /\ UNCHANGED searchResults

\* The answer of the primary index to a query.
FilterInit ==
  /\ SystemInit
  /\ libIdle
  /\ endpointIdle
  /\ readIdle
  /\ queryIdle
  /\ searchResults \in {matchesOf(scores) : scores \in SeqsUpTo(SearchScores, MaxSearchResults)}
  /\ searchMatches = <<>>
  /\ fpc = "query"

FilterNext ==
  \/ filterCall /\ UNCHANGED <<ingestVars, chatVars, sourcesVars, rerankVars, recommendVars, chunkVars, embedVars, readVars, queryVars, endpointVars>>

FilterSpec == FilterInit /\ [][FilterNext]_vars

(* ------------------------------------------------------------------ *)
(* The embedding of a document's chunks: workers/file-processor.ts     *)
(* (getEmbeddings, batchEmbeddings, processEmbedding, the embed branch *)
(* of startWorker) and the per-chunk loop of lib processFile           *)
(* ------------------------------------------------------------------ *)

\* batchEmbeddings: const batchSize = 20
batchSize == 20

\* the embedding the service computes for a chunk
embeddingOf(chunkId) == [chunk |-> chunkId, kind |-> "embedding"]

\* a vector of zeros in place of the embedding of a chunk
zeroVector(chunkId) == [chunk |-> chunkId, kind |-> "zero"]

\* texts.slice(from, from + batchSize), positions counted from 1
batchOf(texts, from) ==
  SubSeq(texts, from, IF from + batchSize - 1 < Len(texts) THEN from + batchSize - 1
                      ELSE Len(texts))

\* the request is answered with zero vectors when the service fails
getEmbeddingsZeroOnError(batch, failing) ==
  Returned([i \in 1..Len(batch) |->
              IF batch[i] = failing THEN zeroVector(batch[i]) ELSE embeddingOf(batch[i])])

\* getEmbeddings(texts): one request for the batch; a rejected fetch or a
\* response that is not ok is logged and thrown again
getEmbeddings(batch, failing) ==
  IF \E i \in 1..Len(batch) : batch[i] = failing
    THEN Threw
    ELSE Returned([i \in 1..Len(batch) |-> embeddingOf(batch[i])])

\* batchEmbeddings: for (let i = 0; i < texts.length; i += batchSize)
RECURSIVE batchEmbeddingsFrom(_, _, _, _)
batchEmbeddingsFrom(texts, failing, from, results) ==
  IF from > Len(texts) THEN Returned(results)
  ELSE LET embeddings == getEmbeddings(batchOf(texts, from), failing)
       IN IF embeddings.threw THEN Threw
          ELSE batchEmbeddingsFrom(texts, failing, from + batchSize,
                                   results \o embeddings.value)

batchEmbeddings(texts, failing) == batchEmbeddingsFrom(texts, failing, 1, <<>>)

\* processEmbedding: the vectors of the VectorStorageTask, or the error of
\* batchEmbeddings thrown again by its catch
processEmbedding(documentId, taskChunks, failing) ==
  LET embeddings == batchEmbeddings(taskChunks, failing)
  IN IF embeddings.threw THEN Threw
     ELSE Returned([index \in 1..Len(taskChunks) |->
                      [id |-> vectorId(documentId, taskChunks[index]),
                       values |-> embeddings.value[index]]])

\* startWorker, the embed branch: processEmbedding pushes the vector task,
\* or its error is caught and the task is passed to retryFailedTask
embeddingBranch ==
  /\ epc = "call"
  /\ LET outcome == processEmbedding(1, embedChunks, failingChunk)
     IN IF outcome.threw
          THEN retried' = TRUE /\ vectorTasks' = vectorTasks
          ELSE retried' = FALSE /\ vectorTasks' = Append(vectorTasks, outcome.value)
  /\ epc' = "worker"
  /\ UNCHANGED <<embedChunks, failingChunk, documentChunks>>

\* createEmbedding(input) of lib/siliconflow-embedding.ts
createEmbedding(chunkId, failing) ==
  IF chunkId = failing THEN Threw ELSE Returned(embeddingOf(chunkId))

\* lib processFile: for (let i = 0; i < chunks.length; i++) with the try and
\* catch around each chunk; the chunks that were embedded are inserted
RECURSIVE embedLoop(_, _, _, _)
embedLoop(fileChunks, failing, i, inserted) ==
  IF i > Len(fileChunks) THEN inserted
  ELSE LET embedding == createEmbedding(fileChunks[i], failing)
       IN embedLoop(fileChunks, failing, i + 1,
                    IF embedding.threw THEN inserted
                    ELSE Append(inserted, [chunkIndex |-> fileChunks[i],
                                           embedding |-> embedding.value]))

\* lib processFile from the chunking on
libProcessFile ==
  /\ epc = "call"
  /\ documentChunks' = embedLoop(embedChunks, failingChunk, 1, <<>>)
  /\ epc' = "lib"
  /\ UNCHANGED <<embedChunks, failingChunk, vectorTasks, retried>>

\* A document of up to MaxEmbedChunks chunks and an embedding service that
\* fails for at most one of them.
EmbedInit ==
  /\ SystemInit
  /\ sourcesIdle
  /\ rerankIdle
  /\ recommendIdle
  /\ chunkIdle
  /\ routeIdle
  /\ \E n \in 0..MaxEmbedChunks :
       /\ embedChunks = [i \in 1..n |-> i]
       /\ failingChunk \in 0..n
  /\ vectorTasks = <<>>
  /\ retried = FALSE
  /\ documentChunks = <<>>
  /\ epc = "call"

EmbedNext ==
  \/ embeddingBranch /\ UNCHANGED <<ingestVars, chatVars, sourcesVars, rerankVars, recommendVars, chunkVars, routeVars>>
  \/ libProcessFile /\ UNCHANGED <<ingestVars, chatVars, sourcesVars, rerankVars, recommendVars, chunkVars, routeVars>>

EmbedSpec == EmbedInit /\ [][EmbedNext]_vars

(* ------------------------------------------------------------------ *)
(* app/api/chat/route.ts: the read loop over the completion stream     *)
(* ------------------------------------------------------------------ *)

\* The characters of the body. "data" and ": " stand for the first and the
\* second half of the prefix 'data: ', "text" for the JSON text that carries
\* the content of fragment f between the braces of its object.
char(c) == [c |-> c, f |-> 0]

textOfFragment(f) == [c |-> "text", f |-> f]

prefix == <<char("data"), char(": ")>>

newline == char("LF")

\* data: {"choices":[{"delta":{"content": f}}]} and the blank line after it
eventOf(f) == prefix \o <<char("{"), textOfFragment(f), char("}"), newline, newline>>

\* data: [DONE]
doneEvent == prefix \o <<char("[DONE]"), newline, newline>>

\* the body that carries the fragments 1..n and the [DONE] line
RECURSIVE eventsUpTo(_)
eventsUpTo(n) == IF n = 0 THEN <<>> ELSE eventsUpTo(n - 1) \o eventOf(n)

bodyOf(n) == eventsUpTo(n) \o doneEvent

\* where the value of the next reader.read() ends
readEnd(from) ==
  LET later == {c \in cuts : c > from}
  IN IF later = {} THEN Len(responseBody) ELSE CHOOSE c \in later : \A e \in later : c <= e

\* chunk.split('\n'): the pieces between the line feeds, from position i on
\* with `line` collected so far
RECURSIVE splitLines(_, _, _)
splitLines(chunk, i, line) ==
  IF i > Len(chunk) THEN <<line>>
  ELSE IF chunk[i] = newline THEN <<line>> \o splitLines(chunk, i + 1, <<>>)
  ELSE splitLines(chunk, i + 1, Append(line, chunk[i]))

\* line.startsWith('data: ')
startsWithPrefix(line) == Len(line) >= 2 /\ SubSeq(line, 1, 2) = prefix

\* line.trim().startsWith('{') && line.trim().endsWith('}'); a line between
\* two line feeds has no white space at its ends
looksLikeJson(line) ==
  Len(line) >= 1 /\ line[1] = char("{") /\ line[Len(line)] = char("}")

\* JSON.parse(data).choices?.[0]?.delta?.content: the fragment of a complete
\* object; anything else does not parse and its error is caught
parsedContent(data) ==
  IF Len(data) = 3 /\ data[1] = char("{") /\ data[2].c = "text" /\ data[3] = char("}")
    THEN <<data[2].f>>
    ELSE <<>>

\* the body of `for (const line of lines)`: the contents enqueued for a line
contentOfLine(line) ==
  IF startsWithPrefix(line)
    THEN LET data == SubSeq(line, 3, Len(line))
         IN IF data = <<char("[DONE]")>> \/ data = <<>> THEN <<>> ELSE parsedContent(data)
  ELSE IF looksLikeJson(line) THEN parsedContent(line)
  ELSE <<>>

RECURSIVE contentOfLines(_, _)
contentOfLines(lines, i) ==
  IF i > Len(lines) THEN <<>>
  ELSE contentOfLine(lines[i]) \o contentOfLines(lines, i + 1)

\* what one pass of the while loop enqueues for the value of a read; a chunk
\* of white space only is skipped
contentOfChunk(chunk) ==
  IF \A i \in 1..Len(chunk) : chunk[i] = newline THEN <<>>
  ELSE contentOfLines(splitLines(chunk, 1, <<>>), 1)

\* reader.read() returns the next part of the body and its lines are handled
readerRead ==
  /\ tpc = "reading"
  /\ consumed < Len(responseBody)
  /\ forwarded' = forwarded \o contentOfChunk(SubSeq(responseBody, consumed + 1, readEnd(consumed)))
  /\ consumed' = readEnd(consumed)
  /\ UNCHANGED <<responseBody, cuts, tpc>>

\* reader.read() returns done
readerDone ==
  /\ tpc = "reading"
  /\ consumed = Len(responseBody)
  /\ tpc' = "done"
  /\ UNCHANGED <<responseBody, cuts, consumed, forwarded>>

\* A response body with up to MaxFragments fragments, split into reads at up
\* to MaxCuts places.
ReadInit ==
  /\ SystemInit
  /\ libIdle
  /\ endpointIdle
  /\ filterIdle
  /\ queryIdle
  /\ \E n \in 1..MaxFragments :
       /\ responseBody = bodyOf(n)
       /\ cuts \in {C \in SUBSET (1..Len(bodyOf(n)) - 1) : Cardinality(C) <= MaxCuts}
  /\ consumed = 0
  /\ forwarded = <<>>
  /\ tpc = "reading"

ReadNext ==
  \/ readerRead /\ UNCHANGED <<ingestVars, chatVars, sourcesVars, rerankVars, recommendVars, chunkVars, embedVars, filterVars, queryVars, endpointVars>>
  \/ readerDone /\ UNCHANGED <<ingestVars, chatVars, sourcesVars, rerankVars, recommendVars, chunkVars, embedVars, filterVars, queryVars, endpointVars>>

ReadSpec == ReadInit /\ [][ReadNext]_vars

(* ------------------------------------------------------------------ *)
(* app/api/chat/route.ts buildEnhancedQuery                            *)
(* ------------------------------------------------------------------ *)

\* Strings are modelled by their length; a history message also says
\* whether its content is white space only.

\* conversationHistory.slice(-6)
recentCount == 6

\* if (content.length > 200)
longContent == 200

\* content.substring(0, 100)
contextLength == 100

\* contextQuery.length > 500, contextQuery.substring(0, 500)
queryLimit == 500

\* the length of '...'
ellipsisLength == 3

\* the history messages a request may carry: a long and a shorter message of
\* the conversation, a system message, a message without content
HistoryMessages ==
  {[role |-> "user", length |-> 250, blank |-> FALSE],
   [role |-> "assistant", length |-> 120, blank |-> FALSE],
   [role |-> "system", length |-> 40, blank |-> FALSE],
   [role |-> "user", length |-> 0, blank |-> TRUE]}

\* the lengths of the current message
MessageLengths == {10, 600}

\* slice(-recentCount): the positions of the history that are kept
recentPositions(history) ==
  {i \in 1..Len(history) : i > Len(history) - recentCount}

\* filter(msg => msg.role === 'user' || msg.role === 'assistant')
conversational(msg) == msg.role \in {"user", "assistant"}

\* the map callback: a content over 200 characters is cut to its first 100
contextOf(msg) ==
  IF msg.length > longContent THEN [msg EXCEPT !.length = contextLength] ELSE msg

\* slice(-6).filter(...).map(...): the parts of recentMessages, each with
\* its position in the history
RECURSIVE recentParts(_, _)
recentParts(history, i) ==
  IF i > Len(history) THEN <<>>
  ELSE (IF i \in recentPositions(history) /\ conversational(history[i])
          THEN <<[position |-> i, length |-> contextOf(history[i]).length,
                  blank |-> history[i].blank]>>
          ELSE <<>>) \o recentParts(history, i + 1)

RECURSIVE sumOfLengths(_, _)
sumOfLengths(parts, i) ==
  IF i > Len(parts) THEN 0 ELSE parts[i].length + sumOfLengths(parts, i + 1)

\* join(' '): the length of the joined string
joinedLength(parts) ==
  IF Len(parts) = 0 THEN 0 ELSE sumOfLengths(parts, 1) + (Len(parts) - 1)

\* recentMessages.trim() is not empty
hasContext(parts) == \E i \in 1..Len(parts) : ~parts[i].blank

\* buildEnhancedQuery(currentMessage, conversationHistory)
buildEnhancedQuery(message, history) ==
  LET parts == recentParts(history, 1)
      contextQueryLength == joinedLength(parts) + 1 + message
  IN IF hasContext(parts)
       THEN [length |-> IF contextQueryLength > queryLimit
                          THEN queryLimit + ellipsisLength
                          ELSE contextQueryLength,
             history |-> parts]
       ELSE [length |-> message, history |-> <<>>]

\* POST: const enhancedQuery = buildEnhancedQuery(message, conversationHistory)
buildEnhancedQueryCall ==
  /\ qpc = "call"
  /\ enhancedQuery' = buildEnhancedQuery(currentMessage, conversationHistory)
  /\ qpc' = "returned"
  /\ UNCHANGED <<conversationHistory, currentMessage>>

\* A chat request with its history.
QueryInit ==
  /\ SystemInit
  /\ libIdle
  /\ endpointIdle
  /\ filterIdle
  /\ readIdle
  /\ conversationHistory \in SeqsUpTo(HistoryMessages, MaxHistory)
  /\ currentMessage \in MessageLengths
  /\ enhancedQuery = [length |-> 0, history |-> <<>>]
  /\ qpc = "call"

QueryNext ==
  \/ buildEnhancedQueryCall /\ UNCHANGED <<ingestVars, chatVars, sourcesVars, rerankVars, recommendVars, chunkVars, embedVars, filterVars, readVars, endpointVars>>

QuerySpec == QueryInit /\ [][QueryNext]_vars

(* ------------------------------------------------------------------ *)
(* app/api/worker/route.ts                                             *)
(* ------------------------------------------------------------------ *)

\* every start request is let through
startAllowedAlways(running) == TRUE

\* POST: `if (workerRunning) return 400`: the request goes on when the flag
\* is not set
startAllowed(running) == ~running

\* POST. The handler has no await: from the test of the flag to the return
\* it runs without another request in between. startWorker() runs up to its
\* first await and gives back its promise.
workerPOST ==
  /\ Len(answers) < MaxRequests
  /\ IF startAllowed(workerRunning)
       THEN /\ workerRunning' = TRUE
            /\ workerProcess' = "promise"
            /\ loops' = loops + 1
            /\ answers' = Append(answers, [method |-> "POST", status |-> 200,
                                           running |-> TRUE, received |-> loops])
       ELSE /\ answers' = Append(answers, [method |-> "POST", status |-> 400,
                                           running |-> workerRunning,
                                           received |-> loops])
            /\ UNCHANGED <<workerRunning, workerProcess, loops>>

\* GET: { running: workerRunning }
workerGET ==
  /\ Len(answers) < MaxRequests
  /\ answers' = Append(answers, [method |-> "GET", status |-> 200,
                                 running |-> workerRunning, received |-> loops])
  /\ UNCHANGED <<workerRunning, workerProcess, loops>>

\* the promise of startWorker rejects (an error leaves `while (true)`): the
\* loop is over and the .catch callback clears the flag and the promise
startWorkerRejected ==
  /\ loops > 0
  /\ loops' = loops - 1
  /\ workerRunning' = FALSE
  /\ workerProcess' = "null"
  /\ UNCHANGED answers

\* The worker endpoint of one server process.
EndpointInit ==
  /\ SystemInit
  /\ libIdle
  /\ filterIdle
  /\ readIdle
  /\ queryIdle
  /\ endpointIdle

EndpointNext ==
  \/ workerPOST /\ UNCHANGED <<ingestVars, chatVars, sourcesVars, rerankVars, recommendVars, chunkVars, embedVars, filterVars, readVars, queryVars>>
  \/ workerGET /\ UNCHANGED <<ingestVars, chatVars, sourcesVars, rerankVars, recommendVars, chunkVars, embedVars, filterVars, readVars, queryVars>>
  \/ startWorkerRejected /\ UNCHANGED <<ingestVars, chatVars, sourcesVars, rerankVars, recommendVars, chunkVars, embedVars, filterVars, readVars, queryVars>>

EndpointSpec == EndpointInit /\ [][EndpointNext]_vars

(* ------------------------------------------------------------------ *)
(* Properties                                                          *)
(* ------------------------------------------------------------------ *)

Range(items) == {items[i] : i \in 1..Len(items)}

\* the tasks stored in any queue file
StoredTasks == UNION {Range(fileQ[q]) : q \in QUEUE_NAMES}

\* the worker is pushing the retry of the task it holds (a handler's own
\* push is a task of the next stage)
PushingRetry == wpc \in {"pushRead", "pushWrite"} /\ wpush.stage = cur.stage

\* C1: a task whose handler has failed maxRetries+1 times is not put back in
\* a queue, and its document's persisted status is `failed` when it is given up.
RetryBoundThenFailed ==
  /\ PushingRetry => wpush.retryCount <= wpush.maxRetries
  /\ (wpc = "retry" /\ cur.retryCount >= cur.maxRetries) => status[cur.doc] = "failed"

\* C4: enqueue and dequeue are atomic on a queue: a task leaves a queue file
\* only by being returned by a dequeue and enters it only by being enqueued,
\* so none is lost and none comes back after it was dequeued.
EnqueueDequeueAtomic ==
  [][\A q \in QUEUE_NAMES :
       /\ \A t \in Range(fileQ[q]) :
            t \in Range(fileQ'[q]) \/ (wpc = "popWrite" /\ wq = q /\ cur' = t)
       /\ \A t \in Range(fileQ'[q]) :
            t \in Range(fileQ[q]) \/ (clock' = clock + 1 /\ t.seq = clock')]_vars

\* C5: no task is lost by a crash: a task the worker had dequeued and not
\* finished handling when the process died is in its queue after the restart.
NoTaskLostByCrash ==
  [][(crashes' = crashes + 1 /\ cur # NoTask) =>
       \E t \in Range(fileQ'[queueOfStage(cur.stage)]) :
          t.doc = cur.doc /\ t.stage = cur.stage]_vars

\* C6: a restart of the process leaves every queue as it was, in the same
\* order: the queue files the worker uses and the queue the upload route
\* enqueues to.
QueueStateSurvivesRestart ==
  [][crashes' = crashes + 1 => (fileQ' = fileQ /\ memQ' = memQ)]_vars

\* the worker found all three queues empty in this iteration, they are
\* still empty and no request is in flight: nothing is left to be done
Quiescent ==
  /\ wpc = "sleep"
  /\ \A q \in QUEUE_NAMES : fileQ[q] = <<>>
  /\ \A d \in Docs : ppc[d] # "write"

\* C7: every document uploaded through the upload route is taken by the
\* worker and ends `completed` or `failed`: once the worker has nothing left
\* to do, no uploaded document is still waiting.
UploadedDocumentIsProcessed ==
  Quiescent =>
    \A d \in Docs : ppc[d] = "uploaded" =>
       /\ status[d] \in {"completed", "failed"}
       /\ \A q \in QUEUE_NAMES : \A t \in Range(memQ[q]) : t.doc # d

\* C8: dequeue returns the oldest task of the queue (the smallest enqueue
\* stamp) and leaves the younger ones; a task re-enqueued by retry is stored
\* last, behind every task already waiting in that queue.
FifoAndRetryAtTail ==
  [][/\ (wpc = "popWrite" /\ wpc' = "handle") =>
          /\ \A t \in Range(wsnap) : cur'.seq <= t.seq
          /\ \A t \in Range(fileQ'[wq]) : cur'.seq < t.seq
          /\ Len(fileQ'[wq]) = Len(wsnap) - 1
     /\ (wpc = "pushWrite" /\ wpc' = "popRead" /\ wpush.stage = cur.stage) =>
          LET items == fileQ'[wq] IN
            /\ Len(items) = Len(wsnap) + 1
            /\ items[Len(items)].doc = cur.doc
            /\ items[Len(items)].retryCount = cur.retryCount + 1
            /\ \A i \in 1..(Len(items) - 1) :
                 /\ items[i] = wsnap[i]
                 /\ items[i].seq < items[Len(items)].seq]_vars

\* C8 witness: a retried task waits at the tail behind a task that has not
\* failed yet, and the worker has dequeued again with a task left waiting.
RetriedTaskBehindWaiting ==
  \E q \in QUEUE_NAMES :
    /\ Len(fileQ[q]) >= 2
    /\ fileQ[q][1].retryCount = 0
    /\ fileQ[q][Len(fileQ[q])].retryCount >= 1

\* C9: every stored task has retryCount <= maxRetries, with maxRetries 3
\* unless the producer set it; a task written to a queue file is a new task
\* with retryCount 0, the retry of the task whose handler just failed with
\* retryCount + 1, or an unchanged copy of a task in the snapshot the writer
\* had read; and retry is entered only from a failed handler.
RetryCountBounded ==
  [][/\ \A t \in UNION {Range(fileQ'[q]) : q \in QUEUE_NAMES} :
          /\ t.retryCount <= t.maxRetries
          /\ t.maxRetries \in ({DefaultMaxRetries} \cup (ProducerMaxRetries \ {Unset}))
          /\ t.stage # "parse" => t.maxRetries = DefaultMaxRetries
     /\ \A q \in QUEUE_NAMES : \A t \in Range(fileQ'[q]) \ Range(fileQ[q]) :
          \/ t.retryCount = 0
          \/ /\ wpc = "pushWrite"
             /\ q = queueOfStage(cur.stage)
             /\ t.doc = cur.doc /\ t.stage = cur.stage
             /\ t.retryCount = cur.retryCount + 1
          \/ \E d \in Docs : ppc[d] = "write" /\ t \in Range(psnap[d])
          \/ wpc \in {"popWrite", "pushWrite"} /\ wq = q /\ t \in Range(wsnap)
     /\ (wpc' = "retry" /\ wpc # "retry") => (wpc = "handle" /\ cur' = cur)]_vars

\* C9 witness: a stored task has used up its retries, after at least one
\* handler failure.
TaskAtRetryBound ==
  \E t \in StoredTasks : t.retryCount = t.maxRetries /\ t.retryCount >= 1

\* C10: a parse task of an unsupported media kind is never re-enqueued, and
\* a document whose extracted text is empty is failed by the parse stage
\* instead of going on to the embed stage.
PermanentParseFailureNotRetried ==
  /\ \A t \in StoredTasks : t.fileType = "video/mp4" => t.retryCount = 0
  /\ PushingRetry => cur.fileType # "video/mp4"
  /\ \A t \in StoredTasks : t.stage # "parse" => t.blob # "empty"

\* the final events among the events sent
FinalEvents == {i \in 1..Len(out) : out[i].type = "final"}

\* C2: whatever the completion service does for a validated request, the
\* client's event stream carries exactly one final event, and it is the last
\* event before the stream closes.
ExactlyOneFinalEventLast ==
  (cpc = "done" /\ upstream \in {"ok", "empty", "nonOK", "midStreamError"}) =>
     /\ response = "stream"
     /\ closed
     /\ Cardinality(FinalEvents) = 1
     /\ out[Len(out)].type = "final"

\* C3: when the completion call fails entirely (non-OK response or no
\* body), the client receives an event stream of exactly one apology content
\* event followed by one final event with no sources and no recommendations.
UpstreamFailureApologyThenEmptyFinal ==
  (cpc = "done" /\ upstream \in {"nonOK", "noBody"}) =>
     /\ response = "stream"
     /\ out = <<apologyEvent, finalEvent(0, 0)>>

\* the largest element of a non-empty set of numbers
MaxOf(S) == CHOOSE x \in S : \A y \in S : y <= x

\* the candidates of the fusion: the reranked documents and the boosted
\* multimedia items
FusionCandidates ==
  {[filename |-> relevantContext[i].filename, score |-> relevantContext[i].score] :
     i \in 1..Len(relevantContext)}
  \cup {[filename |-> multimediaResults[i].filename,
         score |-> boostedScore(multimediaResults[i].score)] :
          i \in 1..Len(multimediaResults)}

\* C11: in the sources of every final event, each filename of a candidate
\* (reranked document or boosted multimedia item) has exactly one entry, and
\* that entry carries the highest score among the candidates of that filename.
OneSourcePerFilenameWithMaxScore ==
  spc # "none" =>
    \A f \in {c.filename : c \in FusionCandidates} :
      /\ Cardinality({i \in 1..Len(finalSources) : finalSources[i].filename = f}) = 1
      /\ \A i \in 1..Len(finalSources) :
           finalSources[i].filename = f =>
             finalSources[i].score =
               MaxOf({c.score : c \in {x \in FusionCandidates : x.filename = f}})

\* the list is in non-increasing order of score
SortedByScore(items) ==
  \A i \in 1..(Len(items) - 1) : items[i].score >= items[i + 1].score

\* the results of the endpoint that name a candidate
UsableResults ==
  {i \in 1..Len(rerankApi.results) : rerankApi.results[i].index < Len(matches)}

\* the rerank endpoint gave nothing to work with
EndpointUnavailable ==
  \/ rerankApi.outcome \in {"noKey", "networkError", "nonOK"}
  \/ rerankApi.outcome = "ok" /\ UsableResults = {}

\* C12: when the rerank endpoint is unavailable (no key, non-OK response,
\* network error, no usable result), rerank of a non-empty candidate list
\* with topK >= 1 returns a non-empty list in non-increasing order of score.
FallbackNonEmptySorted ==
  (rpc = "returned" /\ Len(matches) > 0 /\ topK >= 1 /\ EndpointUnavailable) =>
     /\ ~rerankedResults.threw
     /\ Len(rerankedResults.value) > 0
     /\ SortedByScore(rerankedResults.value)

\* C13: rerank never throws to its caller, and when the fallback scoring
\* throws the result is the first topK candidates in their original order
\* with their scores unchanged.
RerankNeverThrows ==
  rpc = "returned" =>
     /\ ~rerankedResults.threw
     /\ (Len(matches) > 0 /\ EndpointUnavailable /\ similarity.throws) =>
          /\ Len(rerankedResults.value) =
               (IF topK < Len(matches) THEN topK ELSE Len(matches))
          /\ \A i \in 1..Len(rerankedResults.value) :
               /\ rerankedResults.value[i].content = matches[i].content
               /\ rerankedResults.value[i].score = matches[i].score

\* C13 witness: the endpoint is unavailable, the fallback scoring throws,
\* and the call returned fewer candidates than it was given.
LastResortTruncated ==
  /\ rpc = "returned"
  /\ EndpointUnavailable
  /\ similarity.throws
  /\ Len(matches) > topK
  /\ Len(rerankedResults.value) = topK

\* C14: on every path the result of rerank has at most topK entries and is
\* in descending order of score, whatever the endpoint returns.
AtMostTopKSorted ==
  rpc = "returned" =>
     /\ ~rerankedResults.threw
     /\ Len(rerankedResults.value) <= topK
     /\ SortedByScore(rerankedResults.value)

\* C20: on the primary path every result's score is 0.3 * original + 0.7 *
\* relevance (in thousandths: 10 * score = 3 * original + 7 * relevance) of
\* an item the endpoint returned, the results are in descending order of
\* that score, and relevance scores [0.9, 0.2] for candidates with original
\* scores [0.5, 0.8] give the scores [0.78, 0.38] in the order first, second.
PrimaryPathFusedScore ==
  (rpc = "returned" /\ Len(matches) > 0 /\ rerankApi.outcome = "ok" /\ UsableResults # {}) =>
     /\ ~rerankedResults.threw
     /\ Len(rerankedResults.value) = Cardinality(UsableResults)
     /\ SortedByScore(rerankedResults.value)
     /\ \A i \in 1..Len(rerankedResults.value) :
          \E j \in UsableResults :
            LET item == rerankApi.results[j]
                e == rerankedResults.value[i]
            IN /\ e.content = matches[item.index + 1].content
               /\ 10 * e.score = 3 * matches[item.index + 1].score + 7 * item.relevance_score
     /\ (/\ [i \in 1..Len(matches) |-> matches[i].score] = <<500, 800>>
         /\ rerankApi.results = <<[index |-> 0, relevance_score |-> 900],
                                  [index |-> 1, relevance_score |-> 200]>>) =>
          /\ [i \in 1..2 |-> rerankedResults.value[i].score] = <<780, 380>>
          /\ [i \in 1..2 |-> rerankedResults.value[i].content] = <<1, 2>>

\* C20 witness: the scenario's call has returned.
ScenarioReranked ==
  /\ rpc = "returned"
  /\ [i \in 1..Len(matches) |-> matches[i].score] = <<500, 800>>
  /\ rerankApi.outcome = "ok"
  /\ rerankApi.results = <<[index |-> 0, relevance_score |-> 900],
                           [index |-> 1, relevance_score |-> 200]>>
  /\ Len(rerankedResults.value) = 2

\* C15: generateRecommendations returns at most maxRecommendations
\* questions, whatever maxRecommendations the engine was configured with,
\* also when a step throws and the fallback answers.
AtMostMaxRecommendations ==
  gpc = "returned" => Len(recommended) <= maxRecommendations

\* the chunk ids of the records stored for a document
StoredChunkIds(d) == {r.chunkId : r \in {x \in BagToSet(vectorIndex) : x.documentId = d}}

\* C16: however often the index stage or the whole ingestion of a document
\* runs, the vector index holds exactly one record per chunk id of the
\* document, and a record's id is made of its document id and chunk id only.
OneRecordPerChunkId ==
  \A r \in BagToSet(vectorIndex) :
    /\ CopiesIn(r, vectorIndex) = 1
    /\ r.id = <<r.documentId, r.chunkId>>
    /\ Cardinality({x \in BagToSet(vectorIndex) :
                      x.documentId = r.documentId /\ x.chunkId = r.chunkId}) = 1

\* C16 witness: the index stage of a document runs again (a retried task)
\* while the document's records are already stored.
IndexStageRunsAgain ==
  /\ wpc = "handle"
  /\ cur.stage = "index"
  /\ cur.retryCount >= 1
  /\ StoredChunkIds(cur.doc) = chunkIdsOf(cur.blob)

\* C17: the chunks chunkText returns carry the chunkIndex values 0, 1, ...,
\* n-1 in output order, with or without a page map, in both chunkers.
ChunkIndexContiguous ==
  kpc \in {"parser", "worker"} =>
    \A i \in 1..Len(chunks) : chunks[i].chunkIndex = i - 1

\* C17 witness: a page map of two pages gave at least three chunks, so the
\* index ran on across the page boundary.
ChunksAcrossPages ==
  /\ kpc = "parser"
  /\ Len(pages) = 2
  /\ Len(chunks) >= 3
  /\ chunks[Len(chunks)].pageNumber = 2

\* the positions of the text whose characters a chunk holds
PositionsIn(chunk) ==
  {chunk.content[j].pos : j \in 1..Len(chunk.content)} \ {-1}

\* the positions of the text that hold neither a blank nor a delimiter
SolidPositions ==
  {text[i].pos : i \in {j \in 1..Len(text) : ~isSpace(text[j]) /\ ~isDelimiter(text[j])}}

\* C18: the chunks of lib/document-parser.ts cover the text: every
\* character of the text (the blanks and sentence delimiters between
\* sentences aside) is held by some chunk; and chunks share text only where
\* consecutive chunks meet: two chunks that are not neighbours share no
\* character of the text.
ChunksCoverTextOverlapAtBoundaries ==
  kpc = "parser" =>
    /\ \A p \in SolidPositions : \E i \in 1..Len(chunks) : p \in PositionsIn(chunks[i])
    /\ \A i, j \in 1..Len(chunks) :
         j >= i + 2 => PositionsIn(chunks[i]) \cap PositionsIn(chunks[j]) = {}

\* C19: "A. B. C." with chunkSize 3 (default overlap) and no pages gives 3
\* chunks, the i-th holding the i-th sentence, all with pageNumber null and
\* with strictly increasing chunkIndex.
ScenarioThreeChunks ==
  (kpc = "parser" /\ text = ScenarioText /\ chunkSize = 3
     /\ overlap = DefaultOverlap /\ pages = <<>>) =>
    /\ Len(chunks) = 3
    /\ \A i \in 1..Len(chunks) :
         /\ chunks[i].pageNumber = nullPage
         /\ 3 * (i - 1) \in PositionsIn(chunks[i])
    /\ \A i \in 1..(Len(chunks) - 1) : chunks[i].chunkIndex < chunks[i + 1].chunkIndex

\* the matches of the index answer that were handed to the reranker
Proceeding == {searchMatches[i].id : i \in 1..Len(searchMatches)}

\* C21: a match of the primary index proceeds to reranking if and only if
\* its similarity is not below the floor 0.6 (a match exactly at the floor
\* proceeds), and of the candidates scored [0.9, 0.55, 0.7] exactly 2 proceed.
FloorMatchesProceed ==
  fpc = "rerank" =>
    /\ \A i \in 1..Len(searchResults) :
         searchResults[i].id \in Proceeding <=> ~(searchResults[i].score < 600)
    /\ searchResults = matchesOf(<<900, 550, 700>>) => Len(searchMatches) = 2
\* the vectors of the vector-storage tasks pushed so far
PushedVectors ==
  UNION {{vectorTasks[t][i] : i \in 1..Len(vectorTasks[t])} : t \in 1..Len(vectorTasks)}

\* C22: when the embedding service fails for any batch of an embed task the
\* handler fails as a whole: no index task is enqueued for the attempt, the
\* task is passed to the retry rule, and no vector ever carries anything
\* but the embedding of its own chunk.
EmbedFailureFailsWholeTask ==
  /\ \A v \in PushedVectors : \E c \in 1..Len(embedChunks) :
        v.id = vectorId(1, embedChunks[c]) /\ v.values = embeddingOf(embedChunks[c])
  /\ (epc = "worker" /\ failingChunk # 0) => (vectorTasks = <<>> /\ retried)
  /\ (epc = "worker" /\ failingChunk = 0) =>
        (Len(vectorTasks) = 1 /\ Len(vectorTasks[1]) = Len(embedChunks) /\ ~retried)

\* the service failed in the second batch, after the first one was embedded
SecondBatchFailed ==
  /\ epc = "worker"
  /\ failingChunk > batchSize
  /\ retried
  /\ vectorTasks = <<>>

\* C23: when the embedding of one chunk fails in the middle of a document's
\* batch, that chunk is skipped and the other chunks of the document are
\* still embedded and stored.
FailedChunkSkippedOthersStored ==
  LET others == {embedChunks[i] : i \in 1..Len(embedChunks)} \ {failingChunk}
  IN /\ epc = "worker" =>
          {v.values.chunk : v \in PushedVectors} = others
     /\ epc = "lib" =>
          {documentChunks[i].chunkIndex : i \in 1..Len(documentChunks)} = others
PendingOf(d) ==
  {<<q, i>> \in QUEUE_NAMES \X (1..MaxDeepEnqueues + 1) :
     i <= Len(fileQ[q]) /\ fileQ[q][i].doc = d}

\* the worker has dequeued a task of document d and is not done with it
InFlight(d) == wpc \in {"handle", "retry", "pushRead", "pushWrite"} /\ cur.doc = d

\* C25: with a single worker and one ingestion trigger per document, at
\* every moment at most one task of a document is pending in the three
\* queues or in flight in a handler.
OneTaskPerDocument ==
  \A d \in Docs :
    Cardinality(PendingOf(d)) + (IF InFlight(d) THEN 1 ELSE 0) <= 1
\* the place of a status on the way pending -> processing -> completed
StatusRank(st) ==
  CASE st = "none" -> 0
    [] st = "pending" -> 1
    [] st = "processing" -> 2
    [] st = "completed" -> 3
    [] st = "failed" -> 0

\* C26: a document's status only moves forward along pending -> processing
\* -> completed, except that a handler failure may set it to failed and a
\* retry may move it from failed to processing or completed; once it is
\* completed it never changes again.
StatusMovesForward ==
  [][\A d \in Docs :
       status'[d] # status[d] =>
         /\ status[d] # "completed"
         /\ \/ status'[d] = "failed"
            \/ status[d] = "failed" /\ status'[d] \in {"processing", "completed"}
            \/ status[d] # "failed" /\ StatusRank(status'[d]) > StatusRank(status[d])
    ]_vars

\* C29: a document's status is failed only when no task of the
\* document remains in a queue or in flight (the moment between a handler's
\* failure and the retry decision left aside).
FailedOnlyWithoutTask ==
  \A d \in Docs :
    status[d] = "failed" =>
      /\ PendingOf(d) = {}
      /\ ~(wpc \in {"handle", "pushRead", "pushWrite"} /\ cur.doc = d)
\* the fragments the completion service sent, in its order
UpstreamFragments ==
  LET carrying == SelectSeq(responseBody, LAMBDA ch : ch.c = "text")
  IN [i \in 1..Len(carrying) |-> carrying[i].f]

\* C27: every fragment the completion service sends is forwarded as a
\* content event exactly once and in upstream order, however the body is
\* split into reads: at the end the forwarded contents are the upstream
\* fragments, and they are a prefix of them all along.
FragmentsForwardedOnceInOrder ==
  /\ Len(forwarded) <= Len(UpstreamFragments)
  /\ forwarded = SubSeq(UpstreamFragments, 1, Len(forwarded))
  /\ tpc = "done" => forwarded = UpstreamFragments
\* C28: the enhanced query uses at most the last 3 turns (6 messages) of
\* the history, every history message over 200 characters is cut to 100,
\* and the whole query never exceeds 500 characters.
EnhancedQueryBounded ==
  qpc = "returned" =>
    /\ Len(enhancedQuery.history) <= 6
    /\ \A i \in 1..Len(enhancedQuery.history) :
         LET part == enhancedQuery.history[i]
         IN /\ part.position > Len(conversationHistory) - 6
            /\ conversationHistory[part.position].length > 200 => part.length = 100
    /\ enhancedQuery.length <= 500
\* C30: at most one worker loop started through the endpoint runs at any
\* time, the running flag is true exactly while a loop is running, and a
\* start request received while a worker is running is rejected and starts
\* no second loop.
AtMostOneWorkerLoop ==
  /\ loops <= 1
  /\ workerRunning <=> loops = 1
  /\ \A i \in 1..Len(answers) :
       /\ answers[i].method = "POST" =>
            (answers[i].status = 400 <=> answers[i].received > 0)
       /\ answers[i].method = "GET" =>
            (answers[i].running <=> answers[i].received = 1)

\* a second start request was rejected while the worker was running
SecondStartRejected ==
  /\ Len(answers) >= 2
  /\ answers[1].method = "POST" /\ answers[1].status = 200
  /\ answers[2].method = "POST" /\ answers[2].status = 400
  /\ loops = 1
====
